---- MODULE Spec2Model ----
(***************************************************************************)
(* A model of the DineMetra dashboard front end: the comparison            *)
(* synthesizer and the 404 fallback of services/dinemetraService.js, the   *)
(* HistoricalComparison component's aggregate fetch, the usePredictions    *)
(* and useWebSocket hooks, the dashboard's date range, and the sign-in /   *)
(* sign-up form of components/Login.jsx.                                   *)
(*                                                                         *)
(* JavaScript values are records [k, n, d]: k is the kind ("num", "null",  *)
(* "undefined", "NaN", "Infinity"), and a number is the reduced fraction   *)
(* n / d with d > 0 (IEEE rounding is not modelled: arithmetic is exact).  *)
(* Calendar dates are day numbers.                                         *)
(***************************************************************************)
EXTENDS Integers, Sequences, FiniteSets, Bags, TLC

VARIABLES
    \* ---- _generateMockFromTrends (dinemetraService.js) ----
    trends,         \* the trends response handed to the synthesizer
    mockType,       \* the type argument of the last call, "none" before it
    mockDate,       \* the selectedDate argument of the last call
    nowDate,        \* what new Date().toISOString().split('T')[0] gives
    mockResult,     \* the record the last call returned
    synthPc,        \* "input" before the call, "done" after it
    \* ---- dinemetraAPI.compare* / getDailyTrends and the api client ----
    svcCalls,       \* the calls made so far, in call order, each with its position
    cachedTrends,   \* dinemetraAPI._cachedTrends
    trendsIssued,   \* number of /api/historical/trends/daily requests sent
    session,        \* localStorage's firebaseToken and window.location
    \* ---- HistoricalComparison (component state and its fetches) ----
    hcMounted,      \* whether the mount effect has run
    hcSelectedDate, \* selectedDate = dateRange?.startDate, 0 when empty
    viewMode,       \* 'overview' | 'details' | 'trends'
    trendsWeeks,    \* the week window of the trends view
    historicalData, \* the snapshot, NullData before the first one
    hcLoading,      \* loading
    hcError,        \* error, NullError when null
    isRefreshing,   \* isRefreshing
    hcView,         \* what the last render put on screen, and the values
                    \* its handlers closed over
    hcDeps,         \* the dependencies of the render whose effect ran last
    hcChanges,      \* how many times the date, the view mode or the week
                    \* window has been changed
    lastFetchBy,    \* what called fetchHistoricalData last: "effect",
                    \* "refresh" or "retry", "none" before the first call
    hcFetches,      \* the fetchHistoricalData calls made so far, in call order
    promises,       \* the five promises of the first fetch, each "pending",
                    \* "resolved" or "rejected"
    \* ---- usePredictions (hook state and its backend calls) ----
    predMounted,    \* whether the mount effect has run
    predictions,    \* predictions, by type
    loading,        \* loading, by type
    errors,         \* errors, by key
    predCalls,      \* the refreshPrediction calls that reached the backend
    refreshAlls,    \* the promise of every refreshAll call, in call order
    \* ---- Dashboard.dateRange and the Header's date controls ----
    dateRange,      \* Dashboard's dateRange: startDate and endDate
    today,          \* the day new Date() falls on
    lastSelect,     \* the argument of handleQuickSelect when it was the last
                    \* handler to store a range, NoSelect otherwise
    \* ---- useWebSocket (hook state, refs, sockets and timers) ----
    wsPhase,        \* "initial" before the mount effect, "mounted", "unmounted"
    wsServer,       \* "down": every connection attempt fails; "up": any
                    \* outcome; "chatty": any outcome, and messages flow
    isConnected,    \* isConnected
    reconnectAttempts, \* reconnectAttempts
    renderDep,      \* the reconnectAttempts the connect of the last render
                    \* closed over
    connectDep,     \* the reconnectAttempts the connect the effect ran last
                    \* closed over
    sockets,        \* the sockets that can still deliver an event, a bag
    timers,         \* the pending reconnect timers, a bag
    timeoutSet,     \* reconnectTimeout.current is not null
    socketsCreated, \* number of WebSocket objects constructed
    \* ---- useWebSocket: the traffic of the sockets ----
    wsSendCalls,    \* number of sendMessage calls made so far
    wsSent,         \* the sendMessage calls that reached ws.current.send
    wsInbound,      \* the payloads of the message events, in arrival order
    wsDelivered,    \* the message events onMessage was called for, in order
    \* ---- DineMetraAuth (components/Login.jsx) ----
    isSignUp,       \* isSignUp: the sign-up form is shown
    formData,       \* formData: email, password, confirmPassword
    loginError,     \* error, the empty string when there is none
    loginLoading,   \* loading
    authCalls,      \* the firebase/auth calls made so far, in call order
    location,       \* the route: "/login" until navigate('/dashboard')
    lastEvent       \* the handler that ran last, "none" before the first

synthVars == <<trends, mockType, mockDate, nowDate, mockResult, synthPc>>
svcVars == <<svcCalls, cachedTrends, trendsIssued, session>>

histVars == <<hcMounted, hcSelectedDate, viewMode, trendsWeeks, historicalData,
              hcLoading, hcError, isRefreshing, hcView, hcDeps, hcChanges,
              lastFetchBy, hcFetches, promises>>

predVars == <<predMounted, predictions, loading, errors, predCalls, refreshAlls>>

dateVars == <<dateRange, today, lastSelect>>

wsVars == <<wsPhase, wsServer, isConnected, reconnectAttempts, renderDep,
            connectDep,
            sockets, timers, timeoutSet, socketsCreated>>

msgVars == <<wsSendCalls, wsSent, wsInbound, wsDelivered>>

loginVars == <<isSignUp, formData, loginError, loginLoading, authCalls,
               location, lastEvent>>

vars == <<synthVars, svcVars, histVars, predVars, dateVars, wsVars, msgVars,
          loginVars>>

\* what the actions of one component leave alone
exceptSynth ==
    <<svcVars, histVars, predVars, dateVars, wsVars, msgVars, loginVars>>
exceptSvc ==
    <<synthVars, histVars, predVars, dateVars, wsVars, msgVars, loginVars>>
exceptHist ==
    <<synthVars, svcVars, predVars, dateVars, wsVars, msgVars, loginVars>>
exceptPred ==
    <<synthVars, svcVars, histVars, dateVars, wsVars, msgVars, loginVars>>
exceptDate ==
    <<synthVars, svcVars, histVars, predVars, wsVars, msgVars, loginVars>>
exceptWs == <<synthVars, svcVars, histVars, predVars, dateVars, msgVars, loginVars>>
exceptMsg == <<synthVars, svcVars, histVars, predVars, dateVars, loginVars>>
exceptLogin ==
    <<synthVars, svcVars, histVars, predVars, dateVars, wsVars, msgVars>>

----------------------------------------------------------------------------
(* JavaScript values and the arithmetic calculateChange relies on *)

Abs(i) == IF i < 0 THEN -i ELSE i

RECURSIVE GCD(_, _)
GCD(a, b) == IF b = 0 THEN a ELSE GCD(b, a % b)

Frac(n, d) ==
    LET s == IF d < 0 THEN -1 ELSE 1
        g == GCD(Abs(n), Abs(d))
    IN  [k |-> "num", n |-> (s * n) \div g, d |-> Abs(d) \div g]

NumI(i) == [k |-> "num", n |-> i, d |-> 1]
JsNull == [k |-> "null", n |-> 0, d |-> 1]
JsUndefined == [k |-> "undefined", n |-> 0, d |-> 1]
JsNaN == [k |-> "NaN", n |-> 0, d |-> 1]
JsInfinity(sign) == [k |-> "Infinity", n |-> sign, d |-> 1]

\* ToNumber: null is 0, undefined is NaN
ToNumber(v) ==
    CASE v.k = "num" -> v
      [] v.k = "null" -> NumI(0)
      [] v.k = "Infinity" -> v
      [] OTHER -> JsNaN

\* !v
Falsy(v) == v.k \in {"null", "undefined", "NaN"} \/ (v.k = "num" /\ v.n = 0)

\* v === 0
StrictEqZero(v) == v.k = "num" /\ v.n = 0

Sign(i) == IF i < 0 THEN -1 ELSE 1

\* a - b
JsSub(a, b) ==
    LET x == ToNumber(a)
        y == ToNumber(b)
    IN  CASE x.k = "NaN" \/ y.k = "NaN" -> JsNaN
          [] x.k = "Infinity" /\ y.k = "Infinity" ->
                IF x.n = y.n THEN JsNaN ELSE x
          [] x.k = "Infinity" -> x
          [] y.k = "Infinity" -> JsInfinity(-y.n)
          [] OTHER -> Frac(x.n * y.d - y.n * x.d, x.d * y.d)

\* a / b
JsDiv(a, b) ==
    LET x == ToNumber(a)
        y == ToNumber(b)
    IN  CASE x.k = "NaN" \/ y.k = "NaN" -> JsNaN
          [] x.k = "Infinity" /\ y.k = "Infinity" -> JsNaN
          [] x.k = "Infinity" -> JsInfinity(x.n * Sign(y.n))
          [] y.k = "Infinity" -> NumI(0)
          [] y.n = 0 -> IF x.n = 0 THEN JsNaN ELSE JsInfinity(Sign(x.n))
          [] OTHER -> Frac(x.n * y.d, x.d * y.n)

\* a * b
JsMul(a, b) ==
    LET x == ToNumber(a)
        y == ToNumber(b)
    IN  CASE x.k = "NaN" \/ y.k = "NaN" -> JsNaN
          [] x.k = "Infinity" \/ y.k = "Infinity" ->
                IF x.n = 0 \/ y.n = 0 THEN JsNaN
                ELSE JsInfinity(Sign(x.n) * Sign(y.n))
          [] OTHER -> Frac(x.n * y.n, x.d * y.d)

\* a > b
JsGreater(a, b) ==
    LET x == ToNumber(a)
        y == ToNumber(b)
    IN  CASE x.k = "NaN" \/ y.k = "NaN" -> FALSE
          [] x.k = "Infinity" /\ y.k = "Infinity" -> x.n > y.n
          [] x.k = "Infinity" -> x.n > 0
          [] y.k = "Infinity" -> y.n < 0
          [] OTHER -> x.n * y.d > y.n * x.d

\* Math.round: the nearest integer, halves towards +Infinity
MathRound(a) ==
    LET x == ToNumber(a)
    IN  IF x.k = "num" THEN NumI((2 * x.n + x.d) \div (2 * x.d)) ELSE x

IsFinite(v) == v.k = "num"

----------------------------------------------------------------------------
(* _generateMockFromTrends and _getDefaultMock (dinemetraService.js)        *)

WeekOffset == 7
YearOffset == 364
HoursPerDay == 24

MetricTypes == {"wait_time", "sales", "busyness"}

Max(a, b) == IF a > b THEN a ELSE b

\* trends.daily_data.findIndex(d => d.date === targetDate)
FindIndex(arr, targetDate) ==
    LET hits == {i \in 0..(Len(arr) - 1) : arr[i + 1].date = targetDate}
    IN  IF hits = {} THEN -1
        ELSE CHOOSE i \in hits : \A j \in hits : i <= j

\* !trends?.daily_data?.length
NoDailyData(t) == t.k # "data" \/ Len(t.daily_data) = 0

\* selectedDate || new Date().toISOString().split('T')[0]; 0 is a null date
TargetDate(selectedDate, now) == IF selectedDate = 0 THEN now ELSE selectedDate

SelectedIndex(t, selectedDate, now) ==
    FindIndex(t.daily_data, TargetDate(selectedDate, now))

\* selectedIndex >= 0 ? selectedIndex : trends.daily_data.length - 1
BaseIndex(t, selectedDate, now) ==
    LET selectedIndex == SelectedIndex(t, selectedDate, now)
    IN  IF selectedIndex >= 0 THEN selectedIndex ELSE Len(t.daily_data) - 1

\* mutant: a week counted as 7 days inclusive, 6 records back
WeekAgoIndexSixBack(t, selectedDate, now) ==
    Max(0, BaseIndex(t, selectedDate, now) - (WeekOffset - 1))

WeekAgoIndex(t, selectedDate, now) ==
    Max(0, BaseIndex(t, selectedDate, now) - WeekOffset)

YearAgoIndex(t, selectedDate, now) ==
    Max(0, BaseIndex(t, selectedDate, now) - YearOffset)

\* trends.daily_data[selectedIndex] || trends.daily_data[length - 1]
TodayData(t, selectedDate, now) ==
    LET d == t.daily_data
        selectedIndex == SelectedIndex(t, selectedDate, now)
    IN  IF selectedIndex >= 0 THEN d[selectedIndex + 1] ELSE d[Len(d)]

\* mutant: a series too short for a week-ago record compares today with itself
WeekAgoDataSameWhenShort(t, selectedDate, now) ==
    IF Len(t.daily_data) <= WeekOffset THEN TodayData(t, selectedDate, now)
    ELSE t.daily_data[WeekAgoIndex(t, selectedDate, now) + 1]

\* trends.daily_data[weekAgoIndex] || todayData
WeekAgoData(t, selectedDate, now) ==
    LET i == WeekAgoIndex(t, selectedDate, now)
    IN  IF i < Len(t.daily_data) THEN t.daily_data[i + 1]
        ELSE TodayData(t, selectedDate, now)

\* trends.daily_data[yearAgoIndex] || todayData
YearAgoData(t, selectedDate, now) ==
    LET i == YearAgoIndex(t, selectedDate, now)
    IN  IF i < Len(t.daily_data) THEN t.daily_data[i + 1]
        ELSE TodayData(t, selectedDate, now)

\* mutant: the change taken relative to the current value
calculateChangeOfCurrent(current, previous) ==
    IF Falsy(previous) \/ StrictEqZero(previous) THEN NumI(0)
    ELSE JsMul(JsDiv(JsSub(current, previous), current), NumI(100))

calculateChange(current, previous) ==
    IF Falsy(previous) \/ StrictEqZero(previous) THEN NumI(0)
    ELSE JsMul(JsDiv(JsSub(current, previous), previous), NumI(100))

WaitTimeTemplate(todayData, weekAgoData, yearAgoData) ==
    [today |-> [average_minutes |-> todayData.wait_time,
                count |-> todayData.order_count],
     last_week |-> [average_minutes |-> weekAgoData.wait_time,
                    count |-> weekAgoData.order_count,
                    change_percent |->
                        calculateChange(todayData.wait_time, weekAgoData.wait_time)],
     last_year |-> [average_minutes |-> yearAgoData.wait_time,
                    count |-> yearAgoData.order_count,
                    change_percent |->
                        calculateChange(todayData.wait_time, yearAgoData.wait_time)],
     insight |-> IF JsGreater(todayData.wait_time, weekAgoData.wait_time)
                 THEN "Wait times up from last week"
                 ELSE "Wait times down from last week"]

SalesTemplate(todayData, weekAgoData, yearAgoData) ==
    [today |-> [total |-> todayData.sales,
                order_count |-> todayData.order_count],
     last_week |-> [total |-> weekAgoData.sales,
                    order_count |-> weekAgoData.order_count,
                    change_percent |->
                        calculateChange(todayData.sales, weekAgoData.sales)],
     last_year |-> [total |-> yearAgoData.sales,
                    order_count |-> yearAgoData.order_count,
                    change_percent |->
                        calculateChange(todayData.sales, yearAgoData.sales)],
     insight |-> IF JsGreater(todayData.sales, weekAgoData.sales)
                 THEN "Sales beating last week"
                 ELSE "Sales trailing last week"]

OrdersPerHour(rec) == MathRound(JsDiv(rec.order_count, NumI(HoursPerDay)))

BusynessTemplate(todayData, weekAgoData, yearAgoData) ==
    [today |-> [orders_per_hour |-> OrdersPerHour(todayData),
                total_orders |-> todayData.order_count],
     last_week |-> [orders_per_hour |-> OrdersPerHour(weekAgoData),
                    total_orders |-> weekAgoData.order_count,
                    change_percent |->
                        calculateChange(todayData.order_count, weekAgoData.order_count)],
     last_year |-> [orders_per_hour |-> OrdersPerHour(yearAgoData),
                    total_orders |-> yearAgoData.order_count,
                    change_percent |->
                        calculateChange(todayData.order_count, yearAgoData.order_count)],
     insight |-> IF JsGreater(todayData.order_count, weekAgoData.order_count)
                 THEN "Busyness higher than last week"
                 ELSE "Busyness lower than last week"]

\* the hard-coded record returned when there is no daily series
getDefaultMock(type) ==
    CASE type = "sales" ->
            [today |-> [total |-> NumI(2859), order_count |-> NumI(79)],
             last_week |-> [total |-> NumI(2750), order_count |-> NumI(76),
                            change_percent |-> NumI(4)],
             last_year |-> [total |-> NumI(2400), order_count |-> NumI(65),
                            change_percent |-> Frac(191, 10)],
             insight |-> "Sales up 4% from last week"]
      [] type = "busyness" ->
            [today |-> [orders_per_hour |-> NumI(12), total_orders |-> NumI(79)],
             last_week |-> [orders_per_hour |-> Frac(115, 10),
                            total_orders |-> NumI(76),
                            change_percent |-> Frac(43, 10)],
             last_year |-> [orders_per_hour |-> Frac(102, 10),
                            total_orders |-> NumI(65),
                            change_percent |-> Frac(176, 10)],
             insight |-> "Busyness increasing but manageable"]
      [] OTHER ->
            [today |-> [average_minutes |-> Frac(245, 10), count |-> NumI(79)],
             last_week |-> [average_minutes |-> Frac(252, 10), count |-> NumI(76),
                            change_percent |-> Frac(-28, 10)],
             last_year |-> [average_minutes |-> NumI(28), count |-> NumI(65),
                            change_percent |-> Frac(-125, 10)],
             insight |-> "Wait times trending downward"]

\* templates[type] || templates.wait_time, or the default when there is no series
generateMockFromTrends(t, type, selectedDate, now) ==
    IF NoDailyData(t) THEN getDefaultMock(type)
    ELSE LET todayData == TodayData(t, selectedDate, now)
             weekAgoData == WeekAgoData(t, selectedDate, now)
             yearAgoData == YearAgoData(t, selectedDate, now)
         IN  CASE type = "sales" ->
                    SalesTemplate(todayData, weekAgoData, yearAgoData)
               [] type = "busyness" ->
                    BusynessTemplate(todayData, weekAgoData, yearAgoData)
               [] OTHER ->
                    WaitTimeTemplate(todayData, weekAgoData, yearAgoData)

----------------------------------------------------------------------------
(* The inputs of the synthesizer: daily series of up to MaxLen records,     *)
(* and one of LongLen records (long enough for a year-ago record), whose    *)
(* records all equal a filler record except at most one.  The record at     *)
(* index i carries the date i + 2, so the series is ascending without       *)
(* duplicates; date 1 precedes every series and 0 stands for a null date.   *)

MaxLen == 10
LongLen == 366

RecordKinds == {"A", "B", "zero", "null", "missing"}

DateOfIndex(i) == i + 2

DailyRecord(kind, i) ==
    CASE kind = "A" ->
            [date |-> DateOfIndex(i), wait_time |-> NumI(20),
             sales |-> NumI(100), order_count |-> NumI(30)]
      [] kind = "B" ->
            [date |-> DateOfIndex(i), wait_time |-> NumI(25),
             sales |-> NumI(200), order_count |-> NumI(36)]
      [] kind = "zero" ->
            [date |-> DateOfIndex(i), wait_time |-> NumI(0),
             sales |-> NumI(0), order_count |-> NumI(0)]
      [] kind = "null" ->
            [date |-> DateOfIndex(i), wait_time |-> JsNull,
             sales |-> JsNull, order_count |-> JsNull]
      [] OTHER ->
            [date |-> DateOfIndex(i), wait_time |-> JsUndefined,
             sales |-> JsUndefined, order_count |-> JsUndefined]

\* spikeAt = -1: no record differs from the filler
Series(len, filler, spikeAt, spikeKind) ==
    [i \in 1..len |->
        DailyRecord(IF i - 1 = spikeAt THEN spikeKind ELSE filler, i - 1)]

SpikePositions(len) ==
    IF len <= MaxLen THEN -1..(len - 1)
    ELSE {-1, 0, 1, len - 1 - YearOffset, len - 2 - WeekOffset,
          len - 1 - WeekOffset, len - 2, len - 1}

SeriesOfLength(len) ==
    {Series(len, filler, at, kind) :
        filler \in {"A", "zero"}, at \in SpikePositions(len),
        kind \in RecordKinds \ {"A"}}

SeriesInputs == UNION {SeriesOfLength(len) : len \in (0..MaxLen) \cup {LongLen}}

TrendsInputs ==
    {[k |-> "null", daily_data |-> <<>>], [k |-> "nodaily", daily_data |-> <<>>]}
    \cup {[k |-> "data", daily_data |-> s] : s \in SeriesInputs}

\* the selectedDate arguments tried on a series: null, a date before it, each
\* of its dates (the ends of a long one), and a date after it
SelectedDates(t) ==
    LET len == Len(t.daily_data)
    IN  IF len <= MaxLen THEN 0..DateOfIndex(len)
        ELSE {0, 1, DateOfIndex(0), DateOfIndex(len - 2), DateOfIndex(len - 1),
              DateOfIndex(len)}

NowDates(t) ==
    LET len == Len(t.daily_data)
    IN  {DateOfIndex(len - 1), DateOfIndex(len)}

SynthInit ==
    /\ trends \in TrendsInputs
    /\ nowDate \in NowDates(trends)
    /\ mockType = "none"
    /\ mockDate = 0
    /\ mockResult = [insight |-> "none"]
    /\ synthPc = "input"

\* one call of dinemetraAPI._generateMockFromTrends(trends, type, selectedDate)
GenerateMock ==
    /\ synthPc = "input"
    /\ \E type \in MetricTypes \cup {"other"}, selectedDate \in SelectedDates(trends) :
        /\ mockType' = type
        /\ mockDate' = selectedDate
        /\ mockResult' = generateMockFromTrends(trends, type, selectedDate, nowDate)
    /\ synthPc' = "done"
    /\ UNCHANGED <<trends, nowDate, exceptSynth>>

SynthParked ==
    /\ trends = [k |-> "null", daily_data |-> <<>>]
    /\ nowDate = DateOfIndex(1)
    /\ mockType = "none"
    /\ mockDate = 0
    /\ mockResult = [insight |-> "none"]
    /\ synthPc = "parked"

----------------------------------------------------------------------------
(* dinemetraAPI.compareWaitTimes / compareSales / compareBusyness and       *)
(* getDailyTrends, over the axios client and its response interceptor.      *)
(* A call is a record: fn, its date argument, days (of a getDailyTrends     *)
(* call), pc ("auth": awaiting the comparison endpoint, "trends": awaiting  *)
(* the daily-trends endpoint, "returned", "thrown"), auth (the outcome of   *)
(* the comparison request: Unanswered, Ok or an error), seq (the issue number of its  *)
(* daily-trends request, 0 if none) and result (the value returned or the   *)
(* error thrown).                                                           *)

MaxCalls == 2
DefaultTrendDays == 30
NotFoundStatus == 404
UnauthorizedStatus == 401

CompareFns == {"compareWaitTimes", "compareSales", "compareBusyness"}

\* the type each compare function hands to _generateMockFromTrends
MockTypeOf(fn) ==
    CASE fn = "compareSales" -> "sales"
      [] fn = "compareBusyness" -> "busyness"
      [] OTHER -> "wait_time"

\* the errors axios rejects with: a response with a status, or no response
\* (status 0, error.response undefined: a network failure or a timeout, which
\* differ only in error.code and error.message, read by none of this code)
HttpErrors ==
    {[status |-> NotFoundStatus], [status |-> UnauthorizedStatus],
     [status |-> 500], [status |-> 0]}

\* the date the callers pass: the day selected in the component
CallDates == {DateOfIndex(1)}

\* what the daily-trends endpoint may answer: no daily_data, an empty
\* series, or a series of two records ending on DateOfIndex(1)
TrendsPayloads ==
    {[k |-> "nodaily", daily_data |-> <<>>],
     [k |-> "data", daily_data |-> <<>>],
     [k |-> "data", daily_data |-> Series(2, "A", 1, "B")]}

NoResult == [none |-> TRUE]

\* outcomes of the comparison request other than an error
Unanswered == [status |-> -1]
Ok == [status |-> 200]

\* mutant: the fallback taken on every failure of the comparison request
IsAnyFailure(error) == TRUE

\* error.response?.status === 404
IsNotFound(error) == error.status = NotFoundStatus

\* the response interceptor: on a 401 the token is removed and the page
\* redirected; the error is rejected again in every case
Intercept(error, sess) ==
    IF error.status = UnauthorizedStatus
    THEN [token |-> FALSE, location |-> "/"]
    ELSE sess

SvcInit ==
    /\ svcCalls = <<>>
    /\ cachedTrends = [k |-> "null", daily_data |-> <<>>, seq |-> 0]
    /\ trendsIssued = 0
    /\ session = [token |-> TRUE, location |-> "/dashboard"]

\* compareWaitTimes(date) / compareSales(date) / compareBusyness(date) up to
\* the await of api.get('/api/historical/compare/...')
CallCompare(fn, date) ==
    /\ Len(svcCalls) < MaxCalls
    /\ svcCalls' = Append(svcCalls,
            [fn |-> fn, date |-> date, days |-> 0, pc |-> "auth",
             auth |-> Unanswered, seq |-> 0, result |-> NoResult])
    /\ UNCHANGED <<cachedTrends, trendsIssued, session, exceptSvc>>

\* getDailyTrends(days, endDate) up to the await of api.get
CallGetDailyTrends(days, date) ==
    /\ Len(svcCalls) < MaxCalls
    /\ trendsIssued' = trendsIssued + 1
    /\ svcCalls' = Append(svcCalls,
            [fn |-> "getDailyTrends", date |-> date, days |-> days,
             pc |-> "trends", auth |-> Unanswered, seq |-> trendsIssued + 1,
             result |-> NoResult])
    /\ UNCHANGED <<cachedTrends, session, exceptSvc>>

\* the comparison endpoint answers 200: the call returns response.data
CompareOk(i) ==
    /\ i \in 1..Len(svcCalls)
    /\ svcCalls[i].pc = "auth"
    /\ svcCalls' = [svcCalls EXCEPT ![i].pc = "returned", ![i].auth = Ok,
            ![i].result = [backend |-> svcCalls[i].fn, date |-> svcCalls[i].date]]
    /\ UNCHANGED <<cachedTrends, trendsIssued, session, exceptSvc>>

\* the comparison endpoint fails: on a 404 getDailyTrends(30, date) is called,
\* any other error is thrown again
CompareFail(i, error) ==
    /\ i \in 1..Len(svcCalls)
    /\ svcCalls[i].pc = "auth"
    /\ session' = Intercept(error, session)
    /\ IF IsNotFound(error)
       THEN /\ trendsIssued' = trendsIssued + 1
            /\ svcCalls' = [svcCalls EXCEPT ![i].pc = "trends", ![i].auth = error,
                    ![i].days = DefaultTrendDays, ![i].seq = trendsIssued + 1]
       ELSE /\ trendsIssued' = trendsIssued
            /\ svcCalls' = [svcCalls EXCEPT ![i].pc = "thrown", ![i].auth = error,
                    ![i].result = error]
    /\ UNCHANGED <<cachedTrends, exceptSvc>>

\* the daily-trends endpoint answers 200: the response is cached and
\* returned, or handed to _generateMockFromTrends by a compare function
TrendsOk(i, payload) ==
    /\ i \in 1..Len(svcCalls)
    /\ svcCalls[i].pc = "trends"
    /\ LET data == [k |-> payload.k, daily_data |-> payload.daily_data,
                     seq |-> svcCalls[i].seq]
       IN  /\ cachedTrends' = data
           /\ svcCalls' = [svcCalls EXCEPT ![i].pc = "returned",
                ![i].result =
                    IF svcCalls[i].fn = "getDailyTrends" THEN data
                    ELSE generateMockFromTrends(data, MockTypeOf(svcCalls[i].fn),
                                                svcCalls[i].date, nowDate)]
    /\ UNCHANGED <<trendsIssued, session, exceptSvc>>

\* the daily-trends endpoint fails: the error leaves getDailyTrends and the
\* compare function that awaited it
TrendsFail(i, error) ==
    /\ i \in 1..Len(svcCalls)
    /\ svcCalls[i].pc = "trends"
    /\ session' = Intercept(error, session)
    /\ svcCalls' = [svcCalls EXCEPT ![i].pc = "thrown", ![i].result = error]
    /\ UNCHANGED <<cachedTrends, trendsIssued, exceptSvc>>

\* any other function of dinemetraAPI (the predictions, the summary, the
\* dashboard data) is answered with an error: the response interceptor
OtherRequestFails(error) ==
    /\ session' = Intercept(error, session)
    /\ UNCHANGED <<svcCalls, cachedTrends, trendsIssued, exceptSvc>>

\* Dashboard.handleLogout (components/dashboard/Dashboard.jsx) once signOut
\* has resolved: the token is removed and navigate('/') is called; a
\* rejected signOut changes nothing
HandleLogout ==
    /\ session' = [token |-> FALSE, location |-> "/"]
    /\ UNCHANGED <<svcCalls, cachedTrends, trendsIssued, exceptSvc>>

\* the other Dashboard.handleLogout (src/unnamed/part_008) once signOut has
\* resolved: navigate('/') only, the token stays in localStorage
HandleLogoutNavigate ==
    /\ session' = [session EXCEPT !.location = "/"]
    /\ UNCHANGED <<svcCalls, cachedTrends, trendsIssued, exceptSvc>>

\* ProtectedRoute rendered without a signed-in user:
\* <Navigate to="/" replace />
ProtectedRedirect ==
    /\ session' = [session EXCEPT !.location = "/"]
    /\ UNCHANGED <<svcCalls, cachedTrends, trendsIssued, exceptSvc>>

\* navigate('/dashboard'): Login.jsx after a sign-in or sign-up has
\* resolved, and the Get Started button of the landing page
NavigateDashboard ==
    /\ session' = [session EXCEPT !.location = "/dashboard"]
    /\ UNCHANGED <<svcCalls, cachedTrends, trendsIssued, exceptSvc>>

SvcParked ==
    /\ svcCalls = <<>>
    /\ cachedTrends = [k |-> "null", daily_data |-> <<>>, seq |-> 0]
    /\ trendsIssued = 0
    /\ session = [token |-> TRUE, location |-> "parked"]

SvcNext ==
    \/ \E fn \in CompareFns, date \in CallDates : CallCompare(fn, date)
    \/ \E days \in {DefaultTrendDays, 56}, date \in CallDates :
            CallGetDailyTrends(days, date)
    \/ \E i \in 1..MaxCalls : CompareOk(i)
    \/ \E i \in 1..MaxCalls, error \in HttpErrors : CompareFail(i, error)
    \/ \E i \in 1..MaxCalls, payload \in TrendsPayloads : TrendsOk(i, payload)
    \/ \E i \in 1..MaxCalls, error \in HttpErrors : TrendsFail(i, error)
    \/ \E error \in HttpErrors : OtherRequestFails(error)
    \/ HandleLogout
    \/ HandleLogoutNavigate
    \/ ProtectedRedirect
    \/ NavigateDashboard

SynthNext == GenerateMock


----------------------------------------------------------------------------
(* HistoricalComparison: the component's state, the events that start       *)
(* fetchHistoricalData, and the settling of the five promises it awaits     *)
(* with Promise.all.  A fetch is a record: date and days (the arguments it  *)
(* captured), status ("pending", "ok", "failed") and failed (the promise    *)
(* whose rejection rejected Promise.all, "none" otherwise).  What the       *)
(* service does inside each promise is modelled by SpecSvc.  A handler or   *)
(* a settled fetch only updates the state; React renders later, and until   *)
(* then the view on screen and its handlers are those of the last render    *)
(* (hcView), with the values that render closed over; the render may come   *)
(* at any later moment, which includes the moments React chooses.  SpecHist *)
(* bounds the fetches and the changes of date, view mode and week window,   *)
(* lets a fetch be rejected by one of two of its promises, and follows      *)
(* any number of overlapping fetches, each settling as a whole; SpecAll     *)
(* follows the five promises of one fetch one by one (promises).            *)

MaxFetches == 3
MaxChanges == 2
InitialWeeks == 8
DaysPerWeek == 7

Slots == {"waitTimes", "sales", "busyness", "trends", "summary"}
MetricSlots == {"waitTimes", "sales", "busyness"}
\* the promises SpecHist lets reject a fetch: a comparison and the trends
RejectingSlots == {"sales", "trends"}
ViewModes == {"overview", "details", "trends"}
WeekChoices == {4, InitialWeeks, 12, 16}
HcDates == {DateOfIndex(0), DateOfIndex(1)}

NullData == [null |-> TRUE]
NullError == [fetch |-> 0, slot |-> "none"]

\* what one resolved promise of fetch f contributes to the snapshot
Part(f, fetch) == [fetch |-> f, date |-> fetch.date, days |-> fetch.days]

Snapshot(f, fetch) ==
    [waitTimes |-> Part(f, fetch), sales |-> Part(f, fetch),
     busyness |-> Part(f, fetch), trends |-> Part(f, fetch),
     summary |-> Part(f, fetch)]

\* mutant: a failure whose message is empty stores no error
ErrorMessageFalsy(f, slot) == [fetch |-> 0, slot |-> "none"]

\* err.response?.data?.detail || err.message || 'Failed to load data'
ErrorMessage(f, slot) == [fetch |-> f, slot |-> slot]

\* viewMode === 'trends' ? trendsWeeks * 7 : 30
TrendDays(mode, weeks) ==
    IF mode = "trends" THEN weeks * DaysPerWeek ELSE DefaultTrendDays

\* fetchHistoricalData up to its await, with the values of the render it
\* was created in
StartFetch(by, date, mode, weeks) ==
    /\ Len(hcFetches) < MaxFetches
    /\ lastFetchBy' = by
    /\ hcLoading' = TRUE
    /\ hcError' = NullError
    /\ hcFetches' = Append(hcFetches,
            [date |-> date, days |-> TrendDays(mode, weeks),
             status |-> "pending", failed |-> "none"])

\* the effect on [hcSelectedDate, viewMode, trendsWeeks]
RunEffect(date, mode, weeks) ==
    IF date # 0 THEN StartFetch("effect", date, mode, weeks)
    ELSE UNCHANGED <<hcLoading, hcError, lastFetchBy, hcFetches>>

\* loading ? spinner : error ? error view : main view
Screen ==
    IF hcLoading THEN "spinner"
    ELSE IF hcError # NullError THEN "error" ELSE "main"

\* what a render of the current state returns: the screen, the values its
\* handlers and its effect close over, and what the main view alone shows:
\* the isRefreshing of the refresh button and the snapshot it destructures
Rendered ==
    [screen |-> Screen,
     date |-> hcSelectedDate, mode |-> viewMode, weeks |-> trendsWeeks,
     refreshing |-> Screen = "main" /\ isRefreshing,
     data |-> IF Screen = "main" THEN historicalData ELSE NullData]

\* the dependencies [selectedDate, viewMode, trendsWeeks] of a render
DepsOf(view) == [date |-> view.date, mode |-> view.mode, weeks |-> view.weeks]

\* the main view is on screen: the last render returned neither the
\* spinner nor the error view
MainView == hcMounted /\ hcView.screen = "main"

\* the error view is on screen
ErrorView == hcMounted /\ hcView.screen = "error"

\* the last render changed the dependencies and its effect has not run
HcEffectPending == hcMounted /\ hcDeps # DepsOf(hcView)

HistInit ==
    /\ hcMounted = FALSE
    /\ hcSelectedDate \in HcDates \cup {0}
    /\ viewMode = "overview"
    /\ trendsWeeks = InitialWeeks
    /\ historicalData = NullData
    /\ hcLoading = TRUE
    /\ hcError = NullError
    /\ isRefreshing = FALSE
    /\ hcView = Rendered
    /\ hcDeps = DepsOf(Rendered)
    /\ hcChanges = 0
    /\ lastFetchBy = "none"
    /\ hcFetches = <<>>
    /\ promises = [slot \in Slots |-> "pending"]

\* the effect of the first render
Mount ==
    /\ ~hcMounted
    /\ hcMounted' = TRUE
    /\ hcDeps' = DepsOf(hcView)
    /\ RunEffect(hcView.date, hcView.mode, hcView.weeks)
    /\ UNCHANGED <<hcChanges, hcSelectedDate, viewMode, trendsWeeks,
                   historicalData, isRefreshing, hcView, promises,
                   exceptHist>>

\* React renders the component again after a state update or a new prop:
\* the view and its handlers are those of the state at that moment; React
\* runs the effect a render left pending before it renders again
HcRender ==
    /\ hcMounted
    /\ ~HcEffectPending
    /\ hcView # Rendered
    /\ hcView' = Rendered
    /\ UNCHANGED <<hcChanges, hcMounted, hcSelectedDate, viewMode,
                   trendsWeeks, historicalData, hcLoading, hcError,
                   isRefreshing, hcDeps, lastFetchBy, hcFetches, promises,
                   exceptHist>>

\* the effect on [selectedDate, viewMode, trendsWeeks] of a render that
\* changed one of them, run after the commit with the values of that render
HcEffect ==
    /\ HcEffectPending
    /\ hcDeps' = DepsOf(hcView)
    /\ RunEffect(hcView.date, hcView.mode, hcView.weeks)
    /\ UNCHANGED <<hcChanges, hcMounted, hcSelectedDate, viewMode,
                   trendsWeeks, historicalData, isRefreshing, hcView,
                   promises, exceptHist>>

\* the parent hands down another dateRange.startDate
ChangeDate(date) ==
    /\ hcMounted
    /\ hcChanges < MaxChanges
    /\ hcChanges' = hcChanges + 1
    /\ date # hcSelectedDate
    /\ hcSelectedDate' = date
    /\ UNCHANGED <<hcMounted, viewMode, trendsWeeks, historicalData,
                   hcLoading, hcError, isRefreshing, hcView, hcDeps,
                   lastFetchBy, hcFetches, promises, exceptHist>>

\* a view button of the main view on screen: setViewMode
SetViewMode(mode) ==
    /\ MainView
    /\ hcChanges < MaxChanges
    /\ hcChanges' = hcChanges + 1
    /\ mode # viewMode
    /\ viewMode' = mode
    /\ UNCHANGED <<hcMounted, hcSelectedDate, trendsWeeks, historicalData,
                   hcLoading, hcError, isRefreshing, hcView, hcDeps,
                   lastFetchBy, hcFetches, promises, exceptHist>>

\* handleTrendsWeeksChange, from the select of the trends view on screen,
\* which shows the trendsWeeks of that render
SetTrendsWeeks(weeks) ==
    /\ MainView
    /\ hcChanges < MaxChanges
    /\ hcChanges' = hcChanges + 1
    /\ hcView.mode = "trends"
    /\ weeks # hcView.weeks
    /\ trendsWeeks' = weeks
    /\ UNCHANGED <<hcMounted, hcSelectedDate, viewMode, historicalData,
                   hcLoading, hcError, isRefreshing, hcView, hcDeps,
                   lastFetchBy, hcFetches, promises, exceptHist>>

\* handleRefresh, from the refresh button of the main view on screen,
\* disabled when that render had isRefreshing: setIsRefreshing(true), then
\* the fetchHistoricalData of that render
Refresh ==
    /\ MainView
    /\ ~hcView.refreshing
    /\ isRefreshing' = TRUE
    /\ StartFetch("refresh", hcView.date, hcView.mode, hcView.weeks)
    /\ UNCHANGED <<hcChanges, hcMounted, hcSelectedDate, viewMode,
                   trendsWeeks, historicalData, hcView, hcDeps, promises,
                   exceptHist>>

\* the Retry button of the error view on screen: the fetchHistoricalData
\* of that render
Retry ==
    /\ ErrorView
    /\ StartFetch("retry", hcView.date, hcView.mode, hcView.weeks)
    /\ UNCHANGED <<hcChanges, hcMounted, hcSelectedDate, viewMode,
                   trendsWeeks, historicalData, isRefreshing, hcView, hcDeps,
                   promises, exceptHist>>

\* Promise.all resolved for fetch f: the snapshot is stored (lines 44-50)
\* and the finally block runs
ResolveAll(f) ==
    /\ hcFetches' = [hcFetches EXCEPT ![f].status = "ok"]
    /\ historicalData' = Snapshot(f, hcFetches[f])
    /\ hcLoading' = FALSE
    /\ isRefreshing' = FALSE
    /\ UNCHANGED <<hcChanges, hcMounted, hcSelectedDate, viewMode,
                   trendsWeeks, hcError, hcView, hcDeps, lastFetchBy>>

\* Promise.all rejected for fetch f with the error of promise slot: the
\* catch block stores the message and the finally block runs
RejectAll(f, slot) ==
    /\ hcFetches' = [hcFetches EXCEPT ![f].status = "failed", ![f].failed = slot]
    /\ hcError' = ErrorMessage(f, slot)
    /\ hcLoading' = FALSE
    /\ isRefreshing' = FALSE
    /\ UNCHANGED <<hcChanges, hcMounted, hcSelectedDate, viewMode,
                   trendsWeeks, historicalData, hcView, hcDeps,
                   lastFetchBy>>

\* the five promises of fetch f have resolved
FetchResolves(f) ==
    /\ f \in 1..Len(hcFetches)
    /\ hcFetches[f].status = "pending"
    /\ ResolveAll(f)
    /\ UNCHANGED <<promises, exceptHist>>

\* one of the five promises of fetch f is the first to reject
FetchRejects(f, slot) ==
    /\ f \in 1..Len(hcFetches)
    /\ hcFetches[f].status = "pending"
    /\ RejectAll(f, slot)
    /\ UNCHANGED <<promises, exceptHist>>

\* Promise.all of the first fetch, promise by promise: one of its promises
\* resolves, and Promise.all resolves with the last one
SlotResolves(slot) ==
    /\ Len(hcFetches) = 1
    /\ promises[slot] = "pending"
    /\ promises' = [promises EXCEPT ![slot] = "resolved"]
    /\ IF \A other \in Slots \ {slot} : promises[other] = "resolved"
       THEN ResolveAll(1)
       ELSE UNCHANGED <<hcMounted, hcSelectedDate, viewMode, trendsWeeks,
                        historicalData, hcLoading, hcError, isRefreshing,
                        hcView, hcDeps, hcChanges, lastFetchBy,
                        hcFetches>>
    /\ UNCHANGED exceptHist

\* one of its promises rejects: Promise.all rejects with the first
\* rejection and ignores every later one
SlotRejects(slot) ==
    /\ Len(hcFetches) = 1
    /\ promises[slot] = "pending"
    /\ promises' = [promises EXCEPT ![slot] = "rejected"]
    /\ IF hcFetches[1].status = "pending"
       THEN RejectAll(1, slot)
       ELSE UNCHANGED <<hcMounted, hcSelectedDate, viewMode, trendsWeeks,
                        historicalData, hcLoading, hcError, isRefreshing,
                        hcView, hcDeps, hcChanges, lastFetchBy,
                        hcFetches>>
    /\ UNCHANGED exceptHist

HistParked ==
    /\ hcMounted = FALSE
    /\ hcSelectedDate = 0
    /\ viewMode = "parked"
    /\ trendsWeeks = InitialWeeks
    /\ historicalData = NullData
    /\ hcLoading = TRUE
    /\ hcError = NullError
    /\ isRefreshing = FALSE
    /\ hcView = [screen |-> "parked"]
    /\ hcDeps = [date |-> 0]
    /\ hcChanges = 0
    /\ lastFetchBy = "none"
    /\ hcFetches = <<>>
    /\ promises = [slot \in Slots |-> "pending"]

HistNext ==
    \/ Mount
    \/ HcRender
    \/ HcEffect
    \/ \E date \in HcDates \cup {0} : ChangeDate(date)
    \/ \E mode \in ViewModes : SetViewMode(mode)
    \/ \E weeks \in WeekChoices : SetTrendsWeeks(weeks)
    \/ Refresh
    \/ Retry
    \/ \E f \in 1..MaxFetches : FetchResolves(f)
    \/ \E f \in 1..MaxFetches, slot \in RejectingSlots :
            FetchRejects(f, slot)

AllNext ==
    \/ Mount
    \/ HcRender
    \/ \E slot \in Slots : SlotResolves(slot)
    \/ \E slot \in Slots : SlotRejects(slot)

----------------------------------------------------------------------------
(* usePredictions (src/unnamed/part_015, lines 49-131).  refreshPrediction  *)
(* runs up to its await in the task that calls it, and from the settling    *)
(* of the backend call to the end of its finally block in one task.  A      *)
(* call is a record: type, batch (the refreshAll call it belongs to, 0 for  *)
(* a direct refreshPrediction) and settled ("pending", or how the backend   *)
(* call settled: "object", "string", "invalid", "rejected").                *)

MaxPredCalls == 4

PredTypes == {"waitTime", "busyness", "sales"}
UnknownType == "other"
ErrorKeys == PredTypes \cup {UnknownType}

NoData == [call |-> 0, v |-> "null"]
NoError == "null"
NoKey == "undefined"
InvalidType == "Invalid prediction type"
InvalidFormat == "Invalid response format from API"
UnknownApiError == "Unknown API error"

\* what a backend call resolves with: t is typeof (with null apart), s the
\* text of a string
Results ==
    {[t |-> "object", s |-> ""], [t |-> "string", s |-> "{}"],
     [t |-> "string", s |-> "busy"], [t |-> "null", s |-> ""]}

\* what a backend call rejects with: error.response.data.detail[0].msg,
\* error.response.data.message and error.message, "" when absent
Rejections ==
    {[detail |-> "field required", dataMessage |-> "", message |-> "Request failed"],
     [detail |-> "", dataMessage |-> "", message |-> "Network Error"],
     [detail |-> "", dataMessage |-> "", message |-> ""]}

\* JSON.parse succeeds on the text
JsonParses(text) == text \in {"{}"}

\* result && typeof result === 'object'
IsJsObject(result) == result.t = "object"

\* typeof result === 'string'
IsJsString(result) == result.t = "string"

\* mutant: a string result is thrown away like any other non-object
StoresResultObjectOnly(result) == IsJsObject(result)

\* the try block stores something for the result instead of throwing
StoresResult(result) == IsJsObject(result) \/ IsJsString(result)

\* what the try block stores for a result of call i
StoredData(i, result) ==
    IF IsJsObject(result) THEN [call |-> i, v |-> "object"]
    ELSE IF JsonParses(result.s) THEN [call |-> i, v |-> "parsed"]
    ELSE [call |-> i, v |-> "message"]

\* detail?.[0]?.msg || data?.message || error.message || 'Unknown API error'
MessageOf(error) ==
    IF error.detail # "" THEN error.detail
    ELSE IF error.dataMessage # "" THEN error.dataMessage
    ELSE IF error.message # "" THEN error.message
    ELSE UnknownApiError

\* mutant: the errors of every type are cleared when a refresh starts
BeginRefreshClearingAll(ld, er, type) ==
    [ld |-> [ld EXCEPT ![type] = TRUE], er |-> [key \in DOMAIN er |-> NoError]]

\* refreshPrediction of a configured type up to its await
BeginRefresh(ld, er, type) ==
    [ld |-> [ld EXCEPT ![type] = TRUE], er |-> [er EXCEPT ![type] = NoError]]

RECURSIVE BeginAll(_, _, _)
BeginAll(ld, er, types) ==
    IF types = <<>> THEN [ld |-> ld, er |-> er]
    ELSE LET first == BeginRefresh(ld, er, Head(types))
         IN  BeginAll(first.ld, first.er, Tail(types))

\* refreshAll: the three refreshPrediction calls, in the order of the array
RefreshAllOrder == <<"waitTime", "busyness", "sales">>

StartRefreshAll ==
    /\ Len(predCalls) + Len(RefreshAllOrder) <= MaxPredCalls
    /\ LET begun == BeginAll(loading, errors, RefreshAllOrder)
           batch == Len(refreshAlls) + 1
       IN  /\ loading' = begun.ld
           /\ errors' = begun.er
           /\ predCalls' = predCalls \o
                  [k \in 1..Len(RefreshAllOrder) |->
                      [type |-> RefreshAllOrder[k], batch |-> batch,
                       settled |-> "pending"]]
           /\ refreshAlls' = Append(refreshAlls, "pending")
    /\ UNCHANGED predictions

\* mutant: the first call of a batch to return settles the batch
AnyOfBatch(i) == TRUE

\* every call of the batch of call i other than i has settled
LastOfBatch(i) ==
    \A j \in 1..Len(predCalls) :
        (j # i /\ predCalls[j].batch = predCalls[i].batch)
            => predCalls[j].settled # "pending"

\* Promise.allSettled resolves once the last of its three calls returns
SettleBatch(i) ==
    IF predCalls[i].batch # 0 /\ LastOfBatch(i)
    THEN refreshAlls' = [refreshAlls EXCEPT ![predCalls[i].batch] = "resolved"]
    ELSE UNCHANGED refreshAlls

PredInit ==
    /\ predMounted = FALSE
    /\ predictions = [type \in PredTypes |-> NoData]
    /\ loading = [type \in PredTypes |-> FALSE]
    /\ errors = [key \in ErrorKeys |->
                    IF key \in PredTypes THEN NoError ELSE NoKey]
    /\ predCalls = <<>>
    /\ refreshAlls = <<>>

\* refreshAll, called by the effect of the first render and by the
\* component afterwards
RefreshAll ==
    /\ predMounted' = TRUE
    /\ StartRefreshAll
    /\ UNCHANGED exceptPred

\* refreshPrediction(type, ...) called by the component
RefreshPrediction(type) ==
    /\ predMounted
    /\ Len(predCalls) < MaxPredCalls
    /\ LET begun == BeginRefresh(loading, errors, type)
       IN  /\ loading' = begun.ld
           /\ errors' = begun.er
    /\ predCalls' = Append(predCalls,
           [type |-> type, batch |-> 0, settled |-> "pending"])
    /\ UNCHANGED <<predMounted, predictions, refreshAlls, exceptPred>>

\* refreshPrediction of a type PREDICTION_CONFIG does not have
RefreshUnknown ==
    /\ predMounted
    /\ errors' = [errors EXCEPT ![UnknownType] = InvalidType]
    /\ UNCHANGED <<predMounted, predictions, loading, predCalls, refreshAlls,
                   exceptPred>>

\* the backend call of call i resolves
CallResolves(i, result) ==
    /\ i \in 1..Len(predCalls)
    /\ predCalls[i].settled = "pending"
    /\ LET type == predCalls[i].type
       IN  /\ IF StoresResult(result)
              THEN /\ predictions' =
                          [predictions EXCEPT ![type] = StoredData(i, result)]
                   /\ UNCHANGED errors
              ELSE /\ errors' = [errors EXCEPT ![type] = InvalidFormat]
                   /\ UNCHANGED predictions
           /\ loading' = [loading EXCEPT ![type] = FALSE]
    /\ predCalls' = [predCalls EXCEPT ![i].settled =
           IF IsJsObject(result) THEN "object"
           ELSE IF IsJsString(result) THEN "string" ELSE "invalid"]
    /\ SettleBatch(i)
    /\ UNCHANGED <<predMounted, exceptPred>>

\* the backend call of call i rejects
CallRejects(i, error) ==
    /\ i \in 1..Len(predCalls)
    /\ predCalls[i].settled = "pending"
    /\ LET type == predCalls[i].type
       IN  /\ errors' = [errors EXCEPT ![type] = MessageOf(error)]
           /\ loading' = [loading EXCEPT ![type] = FALSE]
    /\ predCalls' = [predCalls EXCEPT ![i].settled = "rejected"]
    /\ SettleBatch(i)
    /\ UNCHANGED <<predMounted, predictions, exceptPred>>

PredParked ==
    /\ predMounted = FALSE
    /\ predictions = [type \in PredTypes |-> NoData]
    /\ loading = [type \in PredTypes |-> FALSE]
    /\ errors = [key \in ErrorKeys |->
                    IF key \in PredTypes THEN NoError ELSE NoKey]
    /\ predCalls = <<>>
    /\ refreshAlls = <<>>

PredNext ==
    \/ RefreshAll
    \/ \E type \in PredTypes : RefreshPrediction(type)
    \/ RefreshUnknown
    \/ \E i \in 1..MaxPredCalls, result \in Results : CallResolves(i, result)
    \/ \E i \in 1..MaxPredCalls, error \in Rejections : CallRejects(i, error)

----------------------------------------------------------------------------
(* The date range: Dashboard.jsx lines 23-29 and 68-70, and the Header's    *)
(* handlers (src/unnamed/part_011, lines 9-31).  A date is the number of    *)
(* its day, day 1 being 2023-01-01, so that the order of the numbers is     *)
(* the order of the ISO strings the code stores; the empty string of a      *)
(* cleared input is EmptyDate, which sorts before every date.  Local time   *)
(* is UTC.                                                                  *)

EditWindow == 32
InitialDaysBack == 30
WeekPresetDays == 7
DaysPresetArg == 30

EmptyDate == 0

Leap(y) == y % 4 = 0

DaysInMonth(y, m) ==
    IF m = 2 THEN (IF Leap(y) THEN 29 ELSE 28)
    ELSE IF m \in {4, 6, 9, 11} THEN 30 ELSE 31

DaysInYear(y) == IF Leap(y) THEN 366 ELSE 365

RECURSIVE DaysBeforeMonth(_, _)
DaysBeforeMonth(y, m) ==
    IF m <= 1 THEN 0 ELSE DaysBeforeMonth(y, m - 1) + DaysInMonth(y, m - 1)

RECURSIVE DaysBeforeYear(_)
DaysBeforeYear(y) ==
    IF y <= 2023 THEN 0 ELSE DaysBeforeYear(y - 1) + DaysInYear(y - 1)

\* new Date(y, m, d): a month below January rolls into the year before, a
\* day outside the month rolls into the neighbouring months
DateOf(y, m, d) ==
    IF m < 1 THEN DaysBeforeYear(y - 1) + DaysBeforeMonth(y - 1, m + 12) + d
    ELSE DaysBeforeYear(y) + DaysBeforeMonth(y, m) + d

\* getFullYear, getMonth + 1 and getDate of a date
YearOf(date) ==
    CHOOSE y \in 2023..2025 :
        DaysBeforeYear(y) < date /\ date <= DaysBeforeYear(y) + DaysInYear(y)

MonthOf(date) ==
    LET y == YearOf(date)
    IN  CHOOSE m \in 1..12 :
            /\ DateOf(y, m, 1) <= date
            /\ date < DateOf(y, m, 1) + DaysInMonth(y, m)

DayOf(date) == date - DateOf(YearOf(date), MonthOf(date), 1) + 1

\* startDate.setMonth(startDate.getMonth() - 1)
SetMonthBack(date) == DateOf(YearOf(date), MonthOf(date) - 1, DayOf(date))

\* startDate.setDate(startDate.getDate() - n)
SetDateBack(date, n) ==
    DateOf(YearOf(date), MonthOf(date), DayOf(date) - n)

\* the quick-select buttons: 'today', 'week', 30 and 'month'
Presets ==
    {[k |-> "today", n |-> 0], [k |-> "week", n |-> 0],
     [k |-> "days", n |-> DaysPresetArg], [k |-> "month", n |-> 0]}

\* the start date handleQuickSelect computes
QuickSelectStart(days, now) ==
    CASE days.k = "month" -> SetMonthBack(now)
      [] days.k = "week" -> SetDateBack(now, WeekPresetDays)
      [] days.k = "today" -> now
      [] OTHER -> SetDateBack(now, days.n)

\* the days the model starts on: ends of months whose previous month is
\* shorter, in a leap year and in a common year, a day of January, and
\* ordinary days
Todays ==
    {DateOf(2024, 3, 31), DateOf(2025, 3, 30), DateOf(2024, 5, 31),
     DateOf(2024, 1, 15), DateOf(2024, 7, 10)}

\* what a date input can hand to onChange: a cleared input (the offset
\* below the window) or a day around the range, before or after today
EditOffsets == (0 - EditWindow - 1)..2

EditValue(now, offset) ==
    IF offset < 0 - EditWindow THEN EmptyDate ELSE now + offset

NoSelect == [k |-> "none", n |-> 0]

DateInit ==
    /\ today \in Todays
    /\ dateRange = [startDate |-> today - InitialDaysBack, endDate |-> today]
    /\ lastSelect = NoSelect

\* handleDateChange(field, value): onDateRangeChange({...dateRange,
\* [field]: value}), and Dashboard.handleDateRangeChange stores it
HandleDateChange(field, value) ==
    /\ dateRange' = [dateRange EXCEPT ![field] = value]
    /\ lastSelect' = NoSelect
    /\ UNCHANGED <<today, exceptDate>>

\* handleDateChange(e) of the single date input of HistoricalComparison:
\* onDateRangeChange({ startDate: value, endDate: value })
PickDate(value) ==
    /\ dateRange' = [startDate |-> value, endDate |-> value]
    /\ lastSelect' = NoSelect
    /\ UNCHANGED <<today, exceptDate>>

\* handleQuickSelect(days)
HandleQuickSelect(days) ==
    /\ dateRange' = [startDate |-> QuickSelectStart(days, today),
                     endDate |-> today]
    /\ lastSelect' = days
    /\ UNCHANGED <<today, exceptDate>>

DateParked ==
    /\ today = DateOf(2024, 7, 10)
    /\ dateRange = [startDate |-> today - InitialDaysBack, endDate |-> today]
    /\ lastSelect = NoSelect

DateNext ==
    \/ \E field \in {"startDate", "endDate"}, offset \in EditOffsets :
            HandleDateChange(field, EditValue(today, offset))
    \/ \E offset \in EditOffsets : PickDate(EditValue(today, offset))
    \/ \E days \in Presets : HandleQuickSelect(days)

----------------------------------------------------------------------------
(* useWebSocket (src/unnamed/part_015, lines 134-216).  A socket is a       *)
(* record: state ("connecting", "open", "closing"), attempts (the           *)
(* reconnectAttempts its handlers closed over) and cur (it is ws.current).  *)
(* A socket that has delivered its close event leaves the bag.  A timer is  *)
(* a record: attempts (the reconnectAttempts its callback and the connect   *)
(* it calls closed over) and cur (it is reconnectTimeout.current).  The     *)
(* render that follows a change of reconnectAttempts creates a new connect  *)
(* (lines 143-187); the effect of that render (lines 189-201: cleanup of    *)
(* the old one, then connect()) runs after the commit, and socket events    *)
(* and timers can come between the two.                                     *)

MaxSockets == 7
MaxFailingSockets == 13
MaxChattySockets == 4
MAX_RECONNECT_ATTEMPTS == 5

\* how many WebSocket objects a behaviour constructs: more when every
\* connection attempt fails, so that the attempts can run out
SocketBound ==
    CASE wsServer = "down" -> MaxFailingSockets
      [] wsServer = "chatty" -> MaxChattySockets
      [] OTHER -> MaxSockets

\* ws.current and reconnectTimeout.current point somewhere else
Uncurrent(bag) ==
    LET curs == {e \in BagToSet(bag) : e.cur}
    IN  IF curs = {} THEN bag
        ELSE LET c == CHOOSE e \in curs : TRUE
             IN  (bag (-) SetToBag({c})) (+) SetToBag({[c EXCEPT !.cur = FALSE]})

\* clearTimeout(reconnectTimeout.current): the timer, if still pending, is
\* cancelled; the ref keeps its value
ClearTimeout(bag) ==
    LET curs == {e \in BagToSet(bag) : e.cur}
    IN  IF curs = {} THEN bag
        ELSE bag (-) SetToBag({CHOOSE e \in curs : TRUE})

\* ws.current.close(): a connecting or open socket starts closing
CloseCurrent(bag) ==
    LET curs == {e \in BagToSet(bag) : e.cur}
    IN  IF curs = {} THEN bag
        ELSE LET c == CHOOSE e \in curs : TRUE
             IN  (bag (-) SetToBag({c}))
                    (+) SetToBag({[c EXCEPT !.state = "closing"]})

\* ws.current = new WebSocket(url) with the handlers of the connect that
\* closed over attempts
NewSocket(bag, attempts) ==
    Uncurrent(bag) (+)
        SetToBag({[state |-> "connecting", attempts |-> attempts, cur |-> TRUE]})

\* the hook's state setters do nothing once the component is unmounted
SetIsConnected(value) ==
    isConnected' = IF wsPhase = "mounted" THEN value ELSE isConnected

\* onclose of a socket whose handlers closed over attempts
OnClose(attempts) ==
    /\ SetIsConnected(FALSE)
    /\ IF attempts < MAX_RECONNECT_ATTEMPTS
       THEN /\ timers' = Uncurrent(timers) (+)
                    SetToBag({[attempts |-> attempts, cur |-> TRUE]})
            /\ timeoutSet' = TRUE
       ELSE UNCHANGED <<timers, timeoutSet>>

WsInit ==
    /\ wsPhase = "initial"
    /\ wsServer \in {"down", "up"}
    /\ isConnected = FALSE
    /\ reconnectAttempts = 0
    /\ renderDep = 0
    /\ connectDep = 0
    /\ sockets = EmptyBag
    /\ timers = EmptyBag
    /\ timeoutSet = FALSE
    /\ socketsCreated = 0

\* the effect of the first render: connect()
WsMount ==
    /\ wsPhase = "initial"
    /\ wsPhase' = "mounted"
    /\ sockets' = NewSocket(sockets, renderDep)
    /\ socketsCreated' = socketsCreated + 1
    /\ connectDep' = renderDep
    /\ UNCHANGED <<wsServer, isConnected, reconnectAttempts, renderDep,
                   timers, timeoutSet, exceptWs>>

\* the last render committed a connect the effect has not run yet
EffectPending == wsPhase = "mounted" /\ connectDep # renderDep

\* reconnectAttempts is not the value of the last render; React runs the
\* effect a render left pending before it renders again
RenderPending ==
    /\ wsPhase = "mounted"
    /\ renderDep # reconnectAttempts
    /\ ~EffectPending

\* the render that follows a change of reconnectAttempts: useCallback
\* creates a connect that closes over the value of this render
Render ==
    /\ RenderPending
    /\ renderDep' = reconnectAttempts
    /\ UNCHANGED <<wsPhase, wsServer, isConnected, reconnectAttempts,
                   connectDep, sockets, timers, timeoutSet, socketsCreated,
                   exceptWs>>

\* the effect of a render that created a new connect, run after the commit:
\* the cleanup of the previous effect, then the connect() of that render,
\* whatever reconnectAttempts has become since
EffectRerun ==
    /\ EffectPending
    /\ socketsCreated < SocketBound
    /\ timers' = ClearTimeout(timers)
    /\ sockets' = NewSocket(CloseCurrent(sockets), renderDep)
    /\ socketsCreated' = socketsCreated + 1
    /\ connectDep' = renderDep
    /\ UNCHANGED <<wsPhase, wsServer, isConnected, reconnectAttempts,
                   renderDep, timeoutSet, exceptWs>>

\* the component unmounts: the cleanup of the effect runs; React runs a
\* pending effect before the render that removes the component
WsUnmount ==
    /\ wsPhase = "mounted"
    /\ ~EffectPending
    /\ wsPhase' = "unmounted"
    /\ timers' = ClearTimeout(timers)
    /\ sockets' = CloseCurrent(sockets)
    /\ UNCHANGED <<wsServer, isConnected, reconnectAttempts, renderDep,
                   connectDep,
                   timeoutSet, socketsCreated, exceptWs>>

\* a connecting socket opens: onopen
SocketOpens(socket) ==
    /\ wsServer # "down"
    /\ BagIn(socket, sockets)
    /\ socket.state = "connecting"
    /\ sockets' = (sockets (-) SetToBag({socket}))
                    (+) SetToBag({[socket EXCEPT !.state = "open"]})
    /\ SetIsConnected(TRUE)
    /\ reconnectAttempts' =
           IF wsPhase = "mounted" THEN 0 ELSE reconnectAttempts
    /\ UNCHANGED <<wsPhase, wsServer, renderDep, connectDep, timers,
                   timeoutSet,
                   socketsCreated, exceptWs>>

\* the connection of a connecting or open socket fails: onerror, then
\* onclose
SocketFails(socket) ==
    /\ BagIn(socket, sockets)
    /\ socket.state \in {"connecting", "open"}
    /\ sockets' = sockets (-) SetToBag({socket})
    /\ OnClose(socket.attempts)
    /\ UNCHANGED <<wsPhase, wsServer, reconnectAttempts, renderDep,
                   connectDep,
                   socketsCreated, exceptWs>>

\* the server closes an open socket: onclose
ServerCloses(socket) ==
    /\ wsServer # "down"
    /\ BagIn(socket, sockets)
    /\ socket.state = "open"
    /\ sockets' = sockets (-) SetToBag({socket})
    /\ OnClose(socket.attempts)
    /\ UNCHANGED <<wsPhase, wsServer, reconnectAttempts, renderDep,
                   connectDep,
                   socketsCreated, exceptWs>>

\* a socket the hook closed delivers its close event: onclose
CloseDelivered(socket) ==
    /\ BagIn(socket, sockets)
    /\ socket.state = "closing"
    /\ sockets' = sockets (-) SetToBag({socket})
    /\ OnClose(socket.attempts)
    /\ UNCHANGED <<wsPhase, wsServer, reconnectAttempts, renderDep,
                   connectDep,
                   socketsCreated, exceptWs>>

\* a reconnect timer fires: setReconnectAttempts(prev => prev + 1), then
\* the connect() its callback closed over, whether or not the render an
\* earlier change of reconnectAttempts scheduled has run
TimerFires(timer) ==
    /\ BagIn(timer, timers)
    /\ socketsCreated < SocketBound
    /\ reconnectAttempts' =
           IF wsPhase = "mounted" THEN reconnectAttempts + 1
           ELSE reconnectAttempts
    /\ timers' = ClearTimeout(timers (-) SetToBag({timer}))
    /\ sockets' = NewSocket(sockets, timer.attempts)
    /\ socketsCreated' = socketsCreated + 1
    /\ UNCHANGED <<wsPhase, wsServer, isConnected, renderDep, connectDep,
                   timeoutSet,
                   exceptWs>>

SocketStates == {"connecting", "open", "closing"}

AttemptValues == 0..MaxFailingSockets

SocketRecords ==
    [state : SocketStates, attempts : AttemptValues, cur : BOOLEAN]

TimerRecords == [attempts : AttemptValues, cur : BOOLEAN]

WsParked ==
    /\ wsPhase = "initial"
    /\ wsServer = "down"
    /\ isConnected = FALSE
    /\ reconnectAttempts = 0
    /\ renderDep = 0
    /\ connectDep = 0
    /\ sockets = EmptyBag
    /\ timers = EmptyBag
    /\ timeoutSet = FALSE
    /\ socketsCreated = 0

WsNext ==
    \/ WsMount
    \/ Render
    \/ EffectRerun
    \/ WsUnmount
    \/ \E socket \in SocketRecords : SocketOpens(socket)
    \/ \E socket \in SocketRecords : SocketFails(socket)
    \/ \E socket \in SocketRecords : ServerCloses(socket)
    \/ \E socket \in SocketRecords : CloseDelivered(socket)
    \/ \E timer \in TimerRecords : TimerFires(timer)

----------------------------------------------------------------------------
(* The traffic of useWebSocket: sendMessage (src/unnamed/part_015, lines    *)
(* 203-209) and the onmessage handler (lines 157-165).  A sendMessage call  *)
(* is known by its number; a message event by its position in wsInbound.    *)

MaxSends == 1
MaxMessages == 2

\* the texts a message event can carry
Payloads == {"{}", "busy"}

\* mutant: a socket that is still connecting accepts the message
CurrentNotClosed(bag) == \E e \in BagToSet(bag) : e.cur

\* ws.current?.readyState === WebSocket.OPEN
CurrentOpen(bag) == \E e \in BagToSet(bag) : e.cur /\ e.state = "open"

\* mutant: the handler is called with the raw text when it does not parse
DeliversAnything(text) == TRUE

\* JSON.parse(event.data) returns, so that onMessage?.(data) is reached
Delivers(text) == JsonParses(text)

MsgInit ==
    /\ wsSendCalls = 0
    /\ wsSent = {}
    /\ wsInbound = <<>>
    /\ wsDelivered = <<>>

\* sendMessage(message)
SendMessage ==
    /\ wsSendCalls < MaxSends
    /\ wsSendCalls' = wsSendCalls + 1
    /\ wsSent' = IF CurrentOpen(sockets)
                 THEN wsSent \cup {wsSendCalls + 1} ELSE wsSent
    /\ UNCHANGED <<wsInbound, wsDelivered, wsVars, exceptMsg>>

\* an open socket delivers a message event: onmessage
MessageArrives(socket, text) ==
    /\ wsServer = "chatty"
    /\ Len(wsInbound) < MaxMessages
    /\ BagIn(socket, sockets)
    /\ socket.state = "open"
    /\ wsInbound' = Append(wsInbound, text)
    /\ wsDelivered' = IF Delivers(text)
                      THEN Append(wsDelivered, Len(wsInbound) + 1)
                      ELSE wsDelivered
    /\ UNCHANGED <<wsSendCalls, wsSent, wsVars, exceptMsg>>

MsgParked ==
    /\ wsSendCalls = 0
    /\ wsSent = {}
    /\ wsInbound = <<>>
    /\ wsDelivered = <<>>

WsChattyInit ==
    /\ wsPhase = "initial"
    /\ wsServer = "chatty"
    /\ isConnected = FALSE
    /\ reconnectAttempts = 0
    /\ renderDep = 0
    /\ connectDep = 0
    /\ sockets = EmptyBag
    /\ timers = EmptyBag
    /\ timeoutSet = FALSE
    /\ socketsCreated = 0

WsMsgNext ==
    \/ WsMount
    \/ Render
    \/ EffectRerun
    \/ WsUnmount
    \/ \E socket \in SocketRecords : SocketOpens(socket)
    \/ \E socket \in SocketRecords : SocketFails(socket)
    \/ \E socket \in SocketRecords : ServerCloses(socket)
    \/ \E socket \in SocketRecords : CloseDelivered(socket)
    \/ \E timer \in TimerRecords : TimerFires(timer)
    \/ SendMessage
    \/ \E socket \in SocketRecords, text \in Payloads :
            MessageArrives(socket, text)

----------------------------------------------------------------------------
(* DineMetraAuth (components/Login.jsx): the sign-in and sign-up forms.     *)
(* A string is the sequence of its parts: a password its characters, a      *)
(* message its pieces, of which "Firebase: " is one.  An auth call is a     *)
(* record: kind ("signIn", "signUp", "google"), state ("pending", "ok",     *)
(* "failed") and the message it rejected with.                              *)

MaxAuthCalls == 2
MinPasswordLength == 6

EmptyString == <<>>

FirebasePrefix == "Firebase: "

PasswordsDoNotMatch == <<"Passwords do not match!">>
PasswordTooShort == <<"Password must be at least 6 characters">>

FieldNames == {"email", "password", "confirmPassword"}

\* what can be typed: nothing, an address, passwords of 5 and 6 characters
\* and a second one of 6
FieldValues ==
    {EmptyString, <<"a@b.c">>, <<"1", "2", "3", "4", "5">>,
     <<"1", "2", "3", "4", "5", "6">>, <<"d", "i", "f", "f", "e", "r">>}

ValuesOf(name) ==
    IF name = "email" THEN {EmptyString, <<"a@b.c">>}
    ELSE FieldValues \ {<<"a@b.c">>}

\* error.message of the rejections of firebase/auth
AuthMessages ==
    {<<FirebasePrefix, "Error (auth/wrong-password).">>,
     <<FirebasePrefix, "Error (auth/email-already-in-use).">>,
     <<"Network request failed">>}

\* mutant: the message shown as it came
ReplaceNothing(text, part) == text

\* text.replace(part, ''): the first occurrence of part removed
Replace(text, part) ==
    LET hits == {i \in 1..Len(text) : text[i] = part}
    IN  IF hits = {} THEN text
        ELSE LET i == CHOOSE h \in hits : \A g \in hits : h <= g
             IN  SubSeq(text, 1, i - 1) \o SubSeq(text, i + 1, Len(text))

\* mutant: a password of MinPasswordLength characters is too short as well
TooShortInclusive(password) == Len(password) <= MinPasswordLength

\* formData.password.length < 6
TooShort(password) == Len(password) < MinPasswordLength

\* the controls are rendered by DineMetraAuth and not disabled
FormEnabled == location = "/login" /\ ~loginLoading

\* setError(''), setLoading(true) and the await of an auth call
StartAuth(kind) ==
    /\ Len(authCalls) < MaxAuthCalls
    /\ loginError' = EmptyString
    /\ loginLoading' = TRUE
    /\ authCalls' = Append(authCalls,
            [kind |-> kind, state |-> "pending", message |-> EmptyString])
    /\ UNCHANGED <<isSignUp, formData, location>>

LoginInit ==
    /\ isSignUp = FALSE
    /\ formData = [email |-> EmptyString, password |-> EmptyString,
                   confirmPassword |-> EmptyString]
    /\ loginError = EmptyString
    /\ loginLoading = FALSE
    /\ authCalls = <<>>
    /\ location = "/login"
    /\ lastEvent = "none"

\* handleInputChange: an input of the form shown changes
HandleInputChange(name, value) ==
    /\ FormEnabled
    /\ value \in ValuesOf(name)
    /\ name = "confirmPassword" => isSignUp
    /\ formData' = [formData EXCEPT ![name] = value]
    /\ loginError' = EmptyString
    /\ lastEvent' = "input"
    /\ UNCHANGED <<isSignUp, loginLoading, authCalls, location, exceptLogin>>

\* the 'Sign Up' / 'Sign In' link: setIsSignUp(true) / setIsSignUp(false)
SetIsSignUp ==
    /\ FormEnabled
    /\ isSignUp' = ~isSignUp
    /\ lastEvent' = "toggle"
    /\ UNCHANGED <<formData, loginError, loginLoading, authCalls, location,
                   exceptLogin>>

\* handleSignIn up to the await of signInWithEmailAndPassword
HandleSignIn ==
    /\ FormEnabled
    /\ ~isSignUp
    /\ StartAuth("signIn")
    /\ lastEvent' = "signIn"
    /\ UNCHANGED exceptLogin

\* handleGoogleSignIn up to the await of signInWithPopup
HandleGoogleSignIn ==
    /\ FormEnabled
    /\ ~isSignUp
    /\ StartAuth("google")
    /\ lastEvent' = "google"
    /\ UNCHANGED exceptLogin

\* handleSignUp up to a validation error or the await of
\* createUserWithEmailAndPassword
HandleSignUp ==
    /\ FormEnabled
    /\ isSignUp
    /\ IF formData.password # formData.confirmPassword
       THEN /\ loginError' = PasswordsDoNotMatch
            /\ UNCHANGED <<isSignUp, formData, loginLoading, authCalls, location>>
       ELSE IF TooShort(formData.password)
       THEN /\ loginError' = PasswordTooShort
            /\ UNCHANGED <<isSignUp, formData, loginLoading, authCalls, location>>
       ELSE StartAuth("signUp")
    /\ lastEvent' = "signUp"
    /\ UNCHANGED exceptLogin

\* the auth call resolves: navigate('/dashboard'), then setLoading(false)
AuthResolves(i) ==
    /\ i \in 1..Len(authCalls)
    /\ authCalls[i].state = "pending"
    /\ authCalls' = [authCalls EXCEPT ![i].state = "ok"]
    /\ location' = "/dashboard"
    /\ loginLoading' = FALSE
    /\ lastEvent' = "settle"
    /\ UNCHANGED <<isSignUp, formData, loginError, exceptLogin>>

\* the auth call rejects: setError(error.message.replace('Firebase: ', '')),
\* then setLoading(false)
AuthRejects(i, message) ==
    /\ i \in 1..Len(authCalls)
    /\ authCalls[i].state = "pending"
    /\ authCalls' = [authCalls EXCEPT ![i].state = "failed",
                                      ![i].message = message]
    /\ loginError' = Replace(message, FirebasePrefix)
    /\ loginLoading' = FALSE
    /\ lastEvent' = "settle"
    /\ UNCHANGED <<isSignUp, formData, location, exceptLogin>>

LoginParked ==
    /\ isSignUp = FALSE
    /\ formData = [email |-> EmptyString, password |-> EmptyString,
                   confirmPassword |-> EmptyString]
    /\ loginError = EmptyString
    /\ loginLoading = FALSE
    /\ authCalls = <<>>
    /\ location = "parked"
    /\ lastEvent = "none"

LoginNext ==
    \/ \E name \in FieldNames, value \in FieldValues :
            HandleInputChange(name, value)
    \/ SetIsSignUp
    \/ HandleSignIn
    \/ HandleGoogleSignIn
    \/ HandleSignUp
    \/ \E i \in 1..MaxAuthCalls : AuthResolves(i)
    \/ \E i \in 1..MaxAuthCalls, message \in AuthMessages : AuthRejects(i, message)

----------------------------------------------------------------------------
(* The specifications: one per component, the others parked                 *)

InitSynth == SynthInit /\ SvcParked /\ HistParked /\ PredParked /\ DateParked /\ WsParked
    /\ MsgParked /\ LoginParked

SpecSynth == InitSynth /\ [][SynthNext]_vars

InitSvc == SvcInit /\ SynthParked /\ HistParked /\ PredParked /\ DateParked /\ WsParked
    /\ MsgParked /\ LoginParked

SpecSvc == InitSvc /\ [][SvcNext]_vars

InitHist == HistInit /\ SynthParked /\ SvcParked /\ PredParked /\ DateParked /\ WsParked
    /\ MsgParked /\ LoginParked

SpecHist == InitHist /\ [][HistNext]_vars

SpecAll == InitHist /\ [][AllNext]_vars

InitPred == PredInit /\ SynthParked /\ SvcParked /\ HistParked /\ DateParked /\ WsParked
    /\ MsgParked /\ LoginParked

SpecPred == InitPred /\ [][PredNext]_vars

InitDate == DateInit /\ SynthParked /\ SvcParked /\ HistParked /\ PredParked /\ WsParked
    /\ MsgParked /\ LoginParked

SpecDate == InitDate /\ [][DateNext]_vars

InitWs ==
    WsInit /\ SynthParked /\ SvcParked /\ HistParked /\ PredParked /\ DateParked
    /\ MsgParked /\ LoginParked

SpecWs == InitWs /\ [][WsNext]_vars

InitWsMsg ==
    WsChattyInit /\ MsgInit /\ SynthParked /\ SvcParked /\ HistParked
    /\ PredParked /\ DateParked /\ LoginParked

SpecWsMsg == InitWsMsg /\ [][WsMsgNext]_vars

InitLogin ==
    LoginInit /\ SynthParked /\ SvcParked /\ HistParked /\ PredParked
    /\ DateParked /\ WsParked /\ MsgParked

SpecLogin == InitLogin /\ [][LoginNext]_vars

----------------------------------------------------------------------------
(* Properties of the synthesizer, checked under SpecSynth                   *)

\* the daily field a metric is computed from
MetricField(rec, type) ==
    CASE type = "sales" -> rec.sales
      [] type = "busyness" -> rec.order_count
      [] OTHER -> rec.wait_time

\* the value a period of a comparison record shows for a metric
PeriodValue(period, type) ==
    CASE type = "sales" -> period.total
      [] type = "busyness" -> period.orders_per_hour
      [] OTHER -> period.average_minutes

\* the record count a period of a comparison record shows
PeriodCount(period, type) ==
    CASE type = "sales" -> period.order_count
      [] type = "busyness" -> period.total_orders
      [] OTHER -> period.count

\* the value a daily record gives a period for a metric
ExpectedValue(rec, type) ==
    IF type = "busyness"
    THEN (IF rec.order_count.k = "num"
          THEN NumI((rec.order_count.n + 12) \div 24) ELSE OrdersPerHour(rec))
    ELSE MetricField(rec, type)

\* changePercent(curr, prev) = prev == 0 ? 0 : (curr - prev) / prev * 100
ExpectedChangePercent(curr, prev) ==
    IF prev = 0 THEN NumI(0) ELSE Frac((curr - prev) * 100, prev)

\* index of the record dated target, or the last index
ExpectedTodayIdx(series, target) ==
    IF \E i \in 1..Len(series) : series[i].date = target
    THEN (CHOOSE i \in 1..Len(series) : series[i].date = target) - 1
    ELSE Len(series) - 1

ExpectedWeekIdx(todayIdx) == IF todayIdx - 7 > 0 THEN todayIdx - 7 ELSE 0
ExpectedYearIdx(todayIdx) == IF todayIdx - 364 > 0 THEN todayIdx - 364 ELSE 0

NumericSeries(series, type) ==
    \A i \in 1..Len(series) : MetricField(series[i], type).k = "num"

ConstantSeries(series, type) ==
    \A i \in 1..Len(series) :
        MetricField(series[i], type) = MetricField(series[1], type)

SynthDone == synthPc = "done" /\ ~NoDailyData(trends)

SynthTodayIdx == ExpectedTodayIdx(trends.daily_data, TargetDate(mockDate, nowDate))

\* C7: the percent change is 0 whenever the previous value is 0, and every
\* change_percent of a synthesized record is a finite number (no NaN, no
\* Infinity), also when a metric field of a daily record is missing or null.
C7_ChangePercentFinite ==
    (SynthDone /\ mockType \in MetricTypes) =>
        LET s == trends.daily_data
            w == s[ExpectedWeekIdx(SynthTodayIdx) + 1]
            y == s[ExpectedYearIdx(SynthTodayIdx) + 1]
        IN  /\ IsFinite(mockResult.last_week.change_percent)
            /\ IsFinite(mockResult.last_year.change_percent)
            /\ StrictEqZero(MetricField(w, mockType)) =>
                    mockResult.last_week.change_percent = NumI(0)
            /\ StrictEqZero(MetricField(y, mockType)) =>
                    mockResult.last_year.change_percent = NumI(0)

\* C8: on a numeric series, last_week.change_percent and last_year.change_percent
\* are changePercent of the metric field at todayIdx against the one at weekIdx
\* and at yearIdx; a series constant in the metric shows the same value for the
\* three periods and both changes 0.
C8_ChangePercentFromSeries ==
    (SynthDone /\ mockType \in MetricTypes
        /\ NumericSeries(trends.daily_data, mockType)) =>
        LET s == trends.daily_data
            t == s[SynthTodayIdx + 1]
            w == s[ExpectedWeekIdx(SynthTodayIdx) + 1]
            y == s[ExpectedYearIdx(SynthTodayIdx) + 1]
        IN  /\ mockResult.last_week.change_percent =
                    ExpectedChangePercent(MetricField(t, mockType).n,
                                          MetricField(w, mockType).n)
            /\ mockResult.last_year.change_percent =
                    ExpectedChangePercent(MetricField(t, mockType).n,
                                          MetricField(y, mockType).n)
            /\ ConstantSeries(s, mockType) =>
                /\ PeriodValue(mockResult.last_week, mockType) =
                        PeriodValue(mockResult.today, mockType)
                /\ PeriodValue(mockResult.last_year, mockType) =
                        PeriodValue(mockResult.today, mockType)
                /\ mockResult.last_week.change_percent = NumI(0)
                /\ mockResult.last_year.change_percent = NumI(0)

\* the 8-day sales series [100 x 7, 200], compared on its last day, gives 100
C8_Witness ==
    /\ SynthDone
    /\ mockType = "sales"
    /\ Len(trends.daily_data) = 8
    /\ \A i \in 1..7 : trends.daily_data[i].sales = NumI(100)
    /\ trends.daily_data[8].sales = NumI(200)
    /\ SynthTodayIdx = 7
    /\ mockResult.today.total = NumI(200)
    /\ mockResult.last_week.total = NumI(100)
    /\ mockResult.last_week.change_percent = NumI(100)

\* C9: todayIdx is the index of the record dated as the target, or the last
\* index; weekIdx = max(0, todayIdx - 7) and yearIdx = max(0, todayIdx - 364);
\* 0 <= yearIdx <= weekIdx <= todayIdx <= length - 1, and the three periods
\* of the record are taken from the records at these indices.
C9_IndexSelection ==
    SynthDone =>
        LET s == trends.daily_data
            t == BaseIndex(trends, mockDate, nowDate)
            w == WeekAgoIndex(trends, mockDate, nowDate)
            y == YearAgoIndex(trends, mockDate, nowDate)
        IN  /\ t = SynthTodayIdx
            /\ w = ExpectedWeekIdx(t)
            /\ y = ExpectedYearIdx(t)
            /\ 0 <= y /\ y <= w /\ w <= t /\ t <= Len(s) - 1
            /\ PeriodCount(mockResult.today, mockType) = s[t + 1].order_count
            /\ PeriodCount(mockResult.last_week, mockType) = s[w + 1].order_count
            /\ PeriodCount(mockResult.last_year, mockType) = s[y + 1].order_count
            /\ PeriodValue(mockResult.today, mockType) = ExpectedValue(s[t + 1], mockType)
            /\ PeriodValue(mockResult.last_week, mockType) =
                    ExpectedValue(s[w + 1], mockType)
            /\ PeriodValue(mockResult.last_year, mockType) =
                    ExpectedValue(s[y + 1], mockType)

\* a 10-entry series with todayIdx = 9: weekIdx = 2, yearIdx = 0, and the
\* record at index 2 is the one shown for last week
C9_Witness ==
    /\ SynthDone
    /\ Len(trends.daily_data) = 10
    /\ BaseIndex(trends, mockDate, nowDate) = 9
    /\ WeekAgoIndex(trends, mockDate, nowDate) = 2
    /\ YearAgoIndex(trends, mockDate, nowDate) = 0
    /\ mockType = "wait_time"
    /\ trends.daily_data[3].wait_time = NumI(25)
    /\ trends.daily_data[10].wait_time = NumI(20)
    /\ mockResult.last_week.average_minutes = NumI(25)

ShortSeries == Len(trends.daily_data) < 8

\* the comparison record carries its three periods: the call returned
HasPeriods(r) == {"today", "last_week", "last_year"} \subseteq DOMAIN r

\* C10 as stated: for a series of 1 to 7 entries the synthesis does not fail,
\* weekIdx is 0, last_week's value equals today's and last_week.change_percent
\* is 0.
C10_DegeneratesToSameValue ==
    (SynthDone /\ ShortSeries /\ mockType \in MetricTypes) =>
        /\ HasPeriods(mockResult)
        /\ WeekAgoIndex(trends, mockDate, nowDate) = 0
        /\ PeriodValue(mockResult.last_week, mockType) =
                PeriodValue(mockResult.today, mockType)
        /\ mockResult.last_week.change_percent = NumI(0)

\* C10 as amended: for a series of 1 to 7 entries the synthesis does not fail
\* and weekIdx is 0, so last_week shows the first record of the series and, on
\* numeric fields, the change of the selected record against the first one;
\* it is the same value with change 0 when the selected record is the first.
C10_ShortSeriesUsesFirstRecord ==
    (SynthDone /\ ShortSeries /\ mockType \in MetricTypes) =>
        LET s == trends.daily_data
            t == s[SynthTodayIdx + 1]
        IN  /\ HasPeriods(mockResult)
            /\ WeekAgoIndex(trends, mockDate, nowDate) = 0
            /\ PeriodValue(mockResult.last_week, mockType) =
                    ExpectedValue(s[1], mockType)
            /\ PeriodCount(mockResult.last_week, mockType) = s[1].order_count
            /\ NumericSeries(s, mockType) =>
                    mockResult.last_week.change_percent =
                        ExpectedChangePercent(MetricField(t, mockType).n,
                                              MetricField(s[1], mockType).n)
            /\ SynthTodayIdx = 0 =>
                /\ PeriodValue(mockResult.last_week, mockType) =
                        PeriodValue(mockResult.today, mockType)
                /\ mockResult.last_week.change_percent = NumI(0)

\* a 2-entry sales series [100, 200] compared on its last day: last week
\* shows 100 against 200 today, a change of 100
C10_Witness ==
    /\ SynthDone
    /\ mockType = "sales"
    /\ Len(trends.daily_data) = 2
    /\ SynthTodayIdx = 1
    /\ mockResult.today.total = NumI(200)
    /\ mockResult.last_week.total = NumI(100)
    /\ mockResult.last_week.change_percent = NumI(100)

----------------------------------------------------------------------------
(* Properties of the compare functions, checked under SpecSvc               *)

\* a record made by _generateMockFromTrends or _getDefaultMock
IsSynthesized(result) == "last_week" \in DOMAIN result

CompareCalls == {i \in 1..Len(svcCalls) : svcCalls[i].fn \in CompareFns}

\* the comparison request of call i failed with something other than a 404
FailedOtherThan404(i) ==
    /\ svcCalls[i].auth \notin {[status |-> -1], [status |-> 200]}
    /\ svcCalls[i].auth.status # 404

\* C2: a compare function returns synthesized data only after a 404 of the
\* comparison request; on every other failure (no response, 5xx, 401) the
\* original error is thrown, no daily-trends request is sent for the call and
\* nothing synthesized is returned.
C2_FallbackOnlyOn404 ==
    \A i \in CompareCalls :
        /\ FailedOtherThan404(i) =>
            /\ svcCalls[i].pc = "thrown"
            /\ svcCalls[i].result = svcCalls[i].auth
            /\ svcCalls[i].seq = 0
        /\ (svcCalls[i].pc = "returned" /\ IsSynthesized(svcCalls[i].result)) =>
            /\ svcCalls[i].auth \notin {[status |-> -1], [status |-> 200]}
            /\ svcCalls[i].auth.status = 404
        /\ svcCalls[i].seq # 0 =>
            /\ svcCalls[i].auth \notin {[status |-> -1], [status |-> 200]}
            /\ svcCalls[i].auth.status = 404

\* one call threw the network error it met without any daily-trends request,
\* another one met a 404 and returned a synthesized record
C2_Witness ==
    /\ Len(svcCalls) = 2
    /\ svcCalls[1].fn = "compareSales"
    /\ svcCalls[1].pc = "thrown"
    /\ svcCalls[1].auth = [status |-> 0]
    /\ svcCalls[1].result = [status |-> 0]
    /\ svcCalls[1].seq = 0
    /\ svcCalls[2].fn = "compareBusyness"
    /\ svcCalls[2].pc = "returned"
    /\ svcCalls[2].auth = [status |-> 404]
    /\ IsSynthesized(svcCalls[2].result)
    /\ trendsIssued = 1

----------------------------------------------------------------------------
(* Properties of HistoricalComparison, checked under SpecAll and SpecHist   *)

\* every promise of the first fetch has settled
AllPromisesSettled ==
    /\ Len(hcFetches) = 1
    /\ \A slot \in Slots : promises[slot] # "pending"

\* C3: the three comparisons of one fetch fail independently: once every
\* promise of the fetch has settled, whatever metrics were rejected, the
\* fetch as a whole has not failed, the snapshot is there, it carries the
\* record of every metric whose comparison resolved, and no error replaces
\* the view
C3_MetricsFailIndependently ==
    (AllPromisesSettled /\ promises["trends"] = "resolved"
                        /\ promises["summary"] = "resolved")
        => /\ hcFetches[1].status = "ok"
           /\ hcError = NullError
           /\ historicalData # NullData
           /\ \A metric \in MetricSlots :
                  promises[metric] = "resolved"
                      => historicalData[metric] = Part(1, hcFetches[1])

\* every fetch has settled and there were at least two
FetchesSettled ==
    /\ Len(hcFetches) >= 2
    /\ \A f \in 1..Len(hcFetches) : hcFetches[f].status # "pending"

\* C5: once every fetch has settled, the snapshot and the error are those
\* of the fetch issued last, whatever order the responses arrived in: its
\* snapshot and no error when it succeeded, its error when it failed
C5_LatestFetchWins ==
    FetchesSettled =>
        LET last == Len(hcFetches)
        IN  IF hcFetches[last].status = "ok"
            THEN /\ historicalData = Snapshot(last, hcFetches[last])
                 /\ hcError = NullError
            ELSE hcError = ErrorMessage(last, hcFetches[last].failed)

----------------------------------------------------------------------------
(* Properties of usePredictions, checked under SpecPred                     *)

\* call i is the only refresh of its type so far
OnlyRefreshOfType(i) ==
    \A j \in 1..Len(predCalls) :
        j # i => predCalls[j].type # predCalls[i].type

\* C4: after refreshAll has settled, every type that no other refresh
\* touched is, independently of the other types, ready when its call
\* resolved with an object or a string (the data of that call stored, no
\* error, not loading) and in error when its call rejected or resolved with
\* anything else (an error message, not loading)
C4_RefreshAllSettlesEachType ==
    \A i \in 1..Len(predCalls) :
        (/\ predCalls[i].batch # 0
         /\ refreshAlls[predCalls[i].batch] = "resolved"
         /\ OnlyRefreshOfType(i))
            => LET type == predCalls[i].type
               IN  /\ ~loading[type]
                   /\ predCalls[i].settled \in {"object", "string"}
                        => /\ predictions[type].call = i
                           /\ predictions[type].v # "null"
                           /\ errors[type] = NoError
                   /\ predCalls[i].settled \in {"invalid", "rejected"}
                        => errors[type] \notin {NoError, NoKey}

\* refreshAll has settled with busyness rejected and the other two resolved
C4_Witness ==
    /\ Len(predCalls) = 3
    /\ refreshAlls = <<"resolved">>
    /\ predCalls[1].settled = "object"
    /\ predCalls[2].settled = "rejected"
    /\ predCalls[3].settled = "string"
    /\ predictions["waitTime"].call = 1
    /\ predictions["sales"].call = 3
    /\ errors["busyness"] # NoError
    /\ errors["waitTime"] = NoError

----------------------------------------------------------------------------
(* Properties of the date range, checked under SpecDate                     *)

\* C6: after any sequence of presets and edits the stored range satisfies
\* start <= end <= today
C6_RangeOrdered ==
    /\ dateRange.startDate <= dateRange.endDate
    /\ dateRange.endDate <= today

----------------------------------------------------------------------------
(* Properties of useWebSocket, checked under SpecWs                         *)

\* C1: with a server that fails every connection attempt, the hook never
\* counts, nor makes, more than MAX_RECONNECT_ATTEMPTS reconnections
C1_NoSixthRetry ==
    wsServer = "down" => reconnectAttempts <= MAX_RECONNECT_ATTEMPTS

----------------------------------------------------------------------------
(* Properties of the traffic of useWebSocket, checked under SpecWsMsg       *)

\* ws.current is null, closed, closing or still connecting
NoOpenCurrentSocket ==
    \A e \in BagToSet(sockets) : e.cur => e.state # "open"

\* C11: a sendMessage call made while the current socket is not open
\* transmits nothing and changes nothing of the hook, and no message is
\* ever transmitted except by the very call that hands it over
C11_SendWhileNotOpenIsNoOp ==
    [][/\ (wsSendCalls' # wsSendCalls /\ NoOpenCurrentSocket)
            => (wsSent' = wsSent /\ UNCHANGED <<wsVars, wsInbound, wsDelivered>>)
       /\ wsSent' \subseteq (wsSent \cup {wsSendCalls'})
       /\ (wsSendCalls' = wsSendCalls) => (wsSent' = wsSent)]_vars

\* a message was refused, and the hook has a connected socket afterwards
C11_Witness ==
    /\ wsSendCalls = 1
    /\ wsSent = {}
    /\ isConnected
    /\ ~NoOpenCurrentSocket
    /\ socketsCreated > 1

\* the positions of the payloads of a sequence that are JSON texts, in order
RECURSIVE WellFormedPositions(_, _)
WellFormedPositions(payloads, from) ==
    IF from > Len(payloads) THEN <<>>
    ELSE IF JsonParses(payloads[from])
         THEN <<from>> \o WellFormedPositions(payloads, from + 1)
         ELSE WellFormedPositions(payloads, from + 1)

\* C12: the handler has been called exactly once, in arrival order, for
\* every message event whose payload is a JSON text and for no other, and
\* the arrival of a payload that does not parse changes nothing of the
\* hook: isConnected, reconnectAttempts, the sockets and the timers stay
\* as they are
C12_MalformedMessageDropped ==
    /\ [](wsDelivered = WellFormedPositions(wsInbound, 1))
    /\ [][(/\ wsInbound' # wsInbound
           /\ ~JsonParses(wsInbound'[Len(wsInbound')]))
             => UNCHANGED <<wsDelivered, wsVars, wsSendCalls, wsSent>>]_vars

\* a payload that does not parse arrived, then a JSON text, and only the
\* second reached the handler
C12_Witness ==
    /\ wsInbound = <<"busy", "{}">>
    /\ wsDelivered = <<2>>
    /\ isConnected

----------------------------------------------------------------------------
(* More properties of usePredictions, checked under SpecPred                *)

\* the types of the calls a step starts or settles
TouchedTypes ==
    {predCalls'[i].type :
        i \in {j \in 1..Len(predCalls') :
                  j > Len(predCalls) \/ predCalls'[j] # predCalls[j]}}

\* C13: a step of refreshPrediction, its start or its completion, changes
\* the predictions, loading and errors entries of its own type only: the
\* entries of every type no call of the step belongs to stay as they are
C13_RefreshTouchesOwnTypeOnly ==
    [][\A other \in PredTypes \ TouchedTypes :
           /\ predictions'[other] = predictions[other]
           /\ loading'[other] = loading[other]
           /\ errors'[other] = errors[other]]_vars

\* a direct refresh of waitTime has started and settled while busyness
\* holds an error and sales holds data
C13_Witness ==
    /\ \E i \in 1..Len(predCalls) :
          /\ predCalls[i].batch = 0
          /\ predCalls[i].type = "waitTime"
          /\ predCalls[i].settled # "pending"
    /\ errors["busyness"] # NoError
    /\ predictions["sales"] # NoData

\* the calls a refreshAll call made
CallsOfBatch(b) == {i \in 1..Len(predCalls) : predCalls[i].batch = b}

\* C14: the promise of a refreshAll call is pending or resolved, never
\* rejected; it is resolved only when each of its three refreshes has
\* settled, and it resolves in the step in which the last of them stores
\* its data or its error and resets loading
C14_RefreshAllWaitsForAll ==
    /\ [](\A b \in 1..Len(refreshAlls) :
            /\ refreshAlls[b] \in {"pending", "resolved"}
            /\ refreshAlls[b] = "resolved"
                 => /\ Cardinality(CallsOfBatch(b)) = Len(RefreshAllOrder)
                    /\ \A i \in CallsOfBatch(b) :
                           predCalls[i].settled # "pending")
    /\ [][\A b \in 1..Len(refreshAlls) :
            (refreshAlls[b] = "pending" /\ refreshAlls'[b] = "resolved")
                => \E i \in CallsOfBatch(b) :
                       /\ predCalls[i].settled = "pending"
                       /\ predCalls'[i].settled # "pending"
                       /\ ~loading'[predCalls[i].type]
                       /\ \/ predictions'[predCalls[i].type].call = i
                          \/ errors'[predCalls[i].type] # NoError]_vars

\* refreshAll has resolved after a rejection, a success and a response of
\* the wrong format
C14_Witness ==
    /\ refreshAlls = <<"resolved">>
    /\ Len(predCalls) = 3
    /\ predCalls[1].settled = "rejected"
    /\ predCalls[2].settled = "object"
    /\ predCalls[3].settled = "invalid"

----------------------------------------------------------------------------
(* More properties of the service, checked under SpecSvc                    *)

\* the calls that issued a daily-trends request
SeriesCalls == {i \in 1..Len(svcCalls) : svcCalls[i].seq # 0}

\* at least two daily-trends requests were issued and each has been answered
\* with a series
SeriesAllLoaded ==
    /\ trendsIssued >= 2
    /\ \A i \in SeriesCalls : svcCalls[i].pc = "returned"

\* C15: once several daily-trends requests have all completed, _cachedTrends
\* is the response of the request issued last, not of the one that
\* completed last
C15_CacheHoldsLastIssued ==
    SeriesAllLoaded => cachedTrends.seq = trendsIssued

\* C16: a compare function that meets a 404 issues a daily-trends request
\* only while no series has been loaded into _cachedTrends
C16_FallbackReusesCachedSeries ==
    [][\A i \in 1..Len(svcCalls) :
          (/\ svcCalls[i].fn \in CompareFns
           /\ svcCalls[i].pc = "auth"
           /\ svcCalls'[i].pc = "trends")
             => cachedTrends.k = "null"]_vars

\* C20: a record a compare function returns after a 404 carries
\* source = "synthesized", a record of the comparison endpoint does not
C20_SynthesizedTagged ==
    \A i \in CompareCalls :
        svcCalls[i].pc = "returned" =>
            IF svcCalls[i].auth = Ok
            THEN \/ "source" \notin DOMAIN svcCalls[i].result
                 \/ svcCalls[i].result.source # "synthesized"
            ELSE /\ "source" \in DOMAIN svcCalls[i].result
                 /\ svcCalls[i].result.source = "synthesized"

----------------------------------------------------------------------------
(* More properties of the date range, checked under SpecDate                *)

\* C17: after a preset the range ends today and starts today ('today'),
\* today - 6 ('Last 7 Days'), today - 29 ('Last 30 Days'), on a day not
\* after the end ('Last Month')
C17_PresetRanges ==
    lastSelect # NoSelect =>
        /\ dateRange.endDate = today
        /\ CASE lastSelect.k = "today" -> dateRange.startDate = today
             [] lastSelect.k = "week" -> dateRange.startDate = today - 6
             [] lastSelect.k = "days" -> dateRange.startDate = today - 29
             [] OTHER -> dateRange.startDate <= dateRange.endDate

----------------------------------------------------------------------------
(* More properties of useWebSocket, checked under SpecWs                    *)

\* C18: reconnectAttempts counts the connection attempts made since the
\* last open: every WebSocket constructed after the first raises it by
\* exactly one, and it changes only so or by the reset to 0 of an open
C18_CountTracksAttempts ==
    [][/\ (socketsCreated' # socketsCreated /\ wsPhase = "mounted")
            => reconnectAttempts' = reconnectAttempts + 1
       /\ (reconnectAttempts' # reconnectAttempts)
            => \/ reconnectAttempts' = 0
               \/ /\ reconnectAttempts' = reconnectAttempts + 1
                  /\ socketsCreated' = socketsCreated + 1]_vars

----------------------------------------------------------------------------
(* The lifecycle of a prediction type, checked under SpecPred               *)

\* C19: no prediction type holds an error message together with prediction
\* data
C19_NoErrorWithData ==
    \A type \in PredTypes :
        ~(errors[type] # NoError /\ predictions[type] # NoData)

----------------------------------------------------------------------------
(* The insight of a synthesized record, checked under SpecSynth             *)

UpInsights ==
    {"Wait times up from last week", "Sales beating last week",
     "Busyness higher than last week"}

DownInsights ==
    {"Wait times down from last week", "Sales trailing last week",
     "Busyness lower than last week"}

\* C21: the insight of a record synthesized from a series says up / beating /
\* higher exactly when last_week.change_percent > 0 and down / trailing /
\* lower exactly when last_week.change_percent < 0
C21_InsightFollowsChangeSign ==
    (SynthDone /\ mockType \in MetricTypes) =>
        LET change == mockResult.last_week.change_percent
        IN  /\ mockResult.insight \in UpInsights <=> JsGreater(change, NumI(0))
            /\ mockResult.insight \in DownInsights <=> JsGreater(NumI(0), change)


\* the record the template of type builds from three daily records
TemplateOf(type, todayData, weekAgoData, yearAgoData) ==
    CASE type = "sales" -> SalesTemplate(todayData, weekAgoData, yearAgoData)
      [] type = "busyness" -> BusynessTemplate(todayData, weekAgoData, yearAgoData)
      [] OTHER -> WaitTimeTemplate(todayData, weekAgoData, yearAgoData)

\* C30: every value of a record returned by the fallback is taken or
\* computed from records of the daily series handed to it: some record of
\* the series gives the values of today and, with some other records, the
\* values and changes of last week and last year
C30_FiguresDerivedFromSeries ==
    synthPc = "done" =>
        LET s == trends.daily_data
        IN  \E i \in 1..Len(s) :
               /\ mockResult.today = TemplateOf(mockType, s[i], s[i], s[i]).today
               /\ \E j \in 1..Len(s) :
                     mockResult.last_week =
                        TemplateOf(mockType, s[i], s[j], s[j]).last_week
               /\ \E j \in 1..Len(s) :
                     mockResult.last_year =
                        TemplateOf(mockType, s[i], s[j], s[j]).last_year

----------------------------------------------------------------------------
(* Properties of DineMetraAuth, checked under SpecLogin                     *)

\* C22: a click on 'Create Account' with password # confirmPassword, or with
\* a password of fewer than 6 characters, sets the matching error, makes no
\* auth call, does not set loading and does not navigate; with matching
\* passwords of 6 characters or more createUserWithEmailAndPassword is called
C22_SignUpValidation ==
    [][lastEvent' = "signUp" =>
        IF formData.password # formData.confirmPassword
        THEN /\ loginError' = PasswordsDoNotMatch
             /\ authCalls' = authCalls
             /\ ~loginLoading'
             /\ location' = location
        ELSE IF Len(formData.password) < 6
        THEN /\ loginError' = PasswordTooShort
             /\ authCalls' = authCalls
             /\ ~loginLoading'
             /\ location' = location
        ELSE /\ Len(authCalls') = Len(authCalls) + 1
             /\ authCalls'[Len(authCalls')].kind = "signUp"
             /\ authCalls'[Len(authCalls')].state = "pending"]_vars

\* the empty sign-up form was submitted: the length error and no call
C22_Witness ==
    /\ lastEvent = "signUp"
    /\ formData.password = EmptyString
    /\ formData.confirmPassword = EmptyString
    /\ loginError = PasswordTooShort
    /\ authCalls = <<>>
    /\ ~loginLoading
    /\ location = "/login"

\* some auth call is awaited
AuthPending == \E i \in 1..Len(authCalls) : authCalls[i].state = "pending"

\* C23: loading is true exactly while an auth call is awaited; a rejection
\* leaves the route alone and sets the error to the message without its
\* 'Firebase: ' prefix; a resolution navigates to /dashboard; a change of
\* any input clears the error
C23_SignInLifecycle ==
    /\ [](loginLoading <=> AuthPending)
    /\ [][\A i \in 1..Len(authCalls) :
            /\ (authCalls[i].state = "pending" /\ authCalls'[i].state = "failed")
                => /\ location' = location
                   /\ loginError' # EmptyString
                   /\ Head(loginError') # FirebasePrefix
                   /\ Head(authCalls'[i].message) = FirebasePrefix
                        => loginError' = Tail(authCalls'[i].message)
                   /\ Head(authCalls'[i].message) # FirebasePrefix
                        => loginError' = authCalls'[i].message
            /\ (authCalls[i].state = "pending" /\ authCalls'[i].state = "ok")
                => location' = "/dashboard"]_vars
    /\ [][lastEvent' = "input" => loginError' = EmptyString]_vars
    /\ [][location' # location => \E i \in 1..Len(authCalls) :
            authCalls[i].state = "pending" /\ authCalls'[i].state = "ok"]_vars

\* a sign-in failed with a Firebase message, the next one succeeded
C23_Witness ==
    /\ Len(authCalls) = 2
    /\ authCalls[1].kind = "signIn"
    /\ authCalls[1].state = "failed"
    /\ Head(authCalls[1].message) = FirebasePrefix
    /\ authCalls[2].kind = "signIn"
    /\ authCalls[2].state = "ok"
    /\ location = "/dashboard"
    /\ ~loginLoading

----------------------------------------------------------------------------
(* The sockets and timers of useWebSocket, checked under SpecWs             *)

\* C24: once the cleanup of the hook has run no reconnect timer is pending
\* and no WebSocket is constructed
C24_NothingAfterUnmount ==
    /\ [](wsPhase = "unmounted" => timers = EmptyBag)
    /\ [][wsPhase = "unmounted" => socketsCreated' = socketsCreated]_vars

\* how many sockets of the bag are in one of the states
SocketsIn(bag, states) ==
    LET S == {e \in BagToSet(bag) : e.state \in states}
    IN  BagCardinality([e \in S |-> bag[e]])

\* C25: the hook owns at most one socket that is connecting or open and at
\* most one pending reconnect timer
C25_OneSocketOneTimer ==
    /\ SocketsIn(sockets, {"connecting", "open"}) <= 1
    /\ BagCardinality(timers) <= 1

\* C26: while the hook stays mounted it never closes a socket that has
\* opened: an open socket only leaves by a close of the server or an error
C26_OpenSocketKept ==
    [][(wsPhase = "mounted" /\ wsPhase' = "mounted") =>
          ~(/\ SocketsIn(sockets', {"open"}) < SocketsIn(sockets, {"open"})
            /\ SocketsIn(sockets', {"closing"}) > SocketsIn(sockets, {"closing"}))]_vars

----------------------------------------------------------------------------
(* Overlapping refreshes of one prediction type, checked under SpecPred     *)

\* the backend calls of a type still awaited
InFlight(type) ==
    {i \in 1..Len(predCalls) :
        predCalls[i].type = type /\ predCalls[i].settled = "pending"}

\* C27: loading[type] is true exactly while a backend call of the type is
\* in flight
C27_LoadingWhileInFlight ==
    \A type \in PredTypes : loading[type] <=> InFlight(type) # {}

\* the refreshes of a type, in the order they were issued
CallsOfType(type) == {i \in 1..Len(predCalls) : predCalls[i].type = type}

\* call i stored data / an error
Succeeded(i) == predCalls[i].settled \in {"object", "string"}

\* C28: once the refreshes of a type have all settled, when there were at
\* least two, predictions[type] and errors[type] are those of the refresh
\* issued last: its data and no error when it succeeded, its error when it
\* failed
C28_LatestRefreshWins ==
    \A type \in PredTypes :
        (Cardinality(CallsOfType(type)) >= 2 /\ InFlight(type) = {}) =>
            LET last == CHOOSE i \in CallsOfType(type) :
                            \A j \in CallsOfType(type) : j <= i
            IN  IF Succeeded(last)
                THEN /\ predictions[type].call = last
                     /\ errors[type] = NoError
                ELSE errors[type] # NoError

----------------------------------------------------------------------------
(* The main view of HistoricalComparison, checked under SpecHist            *)

\* C29: whenever loading is false and error is null the snapshot
\* historicalData is not null, and the main view is never rendered
\* without a snapshot to destructure
C29_MainViewHasData ==
    /\ (~hcLoading /\ hcError = NullError) => historicalData # NullData
    /\ hcView.screen = "main" => hcView.data # NullData

\* the second fetch failed while the main view of the first was still on
\* screen, the refresh button of that view started a third fetch, and it
\* succeeded: the main view is rendered with the data of the third fetch
C29_Witness ==
    /\ Len(hcFetches) = 3
    /\ hcFetches[1].status = "ok"
    /\ hcFetches[2].status = "failed"
    /\ hcFetches[3].status = "ok"
    /\ lastFetchBy = "refresh"
    /\ ~hcLoading
    /\ hcError = NullError
    /\ historicalData = Snapshot(3, hcFetches[3])
    /\ hcView = Rendered
    /\ hcView.screen = "main"

============================================================================
